---------------------------- MODULE Spec2Model ----------------------------
(***************************************************************************)
(* Thermal-Dashboard: the cycle solvers (src/cycles) and the ideal-gas     *)
(* path sampler (src/core/process_paths.py) as a state machine, with the   *)
(* air-standard pages of the dashboard (src/app.py) as their caller.        *)
(*                                                                         *)
(* Numbers.  The program computes in IEEE doubles.  The model computes in  *)
(* exact arithmetic over two kinds of value:                               *)
(*   - a Rat <<n, d>> (d > 0, lowest terms) for pressures, volumes,        *)
(*     temperatures, ratios, heats and works;                              *)
(*   - a log-form [c |-> Rat, l |-> prime :> Rat] standing for             *)
(*     c + SUM l[p] * ln(p), for everything np.log produces (entropies).   *)
(*     Logarithms of distinct primes are linearly independent over the     *)
(*     rationals, so two log-forms are equal as records exactly when the   *)
(*     reals they stand for are equal.                                     *)
(* x ** y is modelled where its value is rational (Pow); the input sets    *)
(* hold only inputs on which every power taken is rational.  Rounding is   *)
(* not modelled: an equality of the model is an equality of reals.         *)
(***************************************************************************)
EXTENDS Integers, Sequences, FiniteSets, TLC

VARIABLES
  pc,         \* "idle" | "returned" | "raised": where the one invocation stands
  call,       \* the invocation: [fn |-> name, <argument name> |-> value, ...]
  states_df,  \* the states table: [columns |-> set of names, rows |-> Seq(row)]
  metrics,    \* the metrics dict, a function from key to value
  sat_df,     \* the saturation table of a real-fluid solver
  path,       \* the table smooth_path_ideal returned
  err,        \* the exception that ended the call, "" when none
  queries,    \* the Property Provider lookups issued so far, in order
  prev,       \* the invocation the caller made before this one (its call and result)
  provider,   \* the Property Provider the real-fluid solvers look states up in
  running     \* the sampler invocations in progress on states_df, by thread

vars == <<pc, call, states_df, metrics, sat_df, path, err, queries, prev, provider, running>>

-----------------------------------------------------------------------------
(* Exact rational arithmetic *)

Abs(n) == IF n < 0 THEN -n ELSE n

RECURSIVE GCD(_, _)
GCD(a, b) == IF b = 0 THEN a ELSE GCD(b, a % b)

\* the fraction n/d (d # 0) in lowest terms with a positive denominator
Frac(n, d) ==
  LET g == GCD(Abs(n), Abs(d))
      sgn == IF d < 0 THEN -1 ELSE 1
  IN <<(sgn * n) \div g, (sgn * d) \div g>>

Q(n) == <<n, 1>>
Zero == <<0, 1>>
One == <<1, 1>>

RAdd(x, y) == Frac(x[1] * y[2] + y[1] * x[2], x[2] * y[2])
RSub(x, y) == Frac(x[1] * y[2] - y[1] * x[2], x[2] * y[2])
RMul(x, y) == Frac(x[1] * y[1], x[2] * y[2])
\* x / y for y # 0; callers test IsZero(y) first, as Python raises there
RDiv(x, y) == Frac(x[1] * y[2], x[2] * y[1])
RNeg(x) == <<-x[1], x[2]>>
IsZero(x) == x[1] = 0
RLt(x, y) == x[1] * y[2] < y[1] * x[2]
RLe(x, y) == x[1] * y[2] <= y[1] * x[2]
RPos(x) == x[1] > 0

RECURSIVE IPow(_, _)
\* x ** k for a natural k
IPow(x, k) == IF k = 0 THEN One ELSE RMul(x, IPow(x, k - 1))

\* the natural r with r^q = n, when there is one
HasRoot(n, q) == q = 1 \/ \E r \in 0..n : IPow(Q(r), q) = Q(n)
Root(n, q) == IF q = 1 THEN n ELSE CHOOSE r \in 0..n : IPow(Q(r), q) = Q(n)

\* whether x ** e is a rational the model can name (x >= 0, e = p/q)
HasPow(x, e) ==
  /\ x[1] >= 0
  /\ (e[1] < 0 => x[1] # 0)
  /\ HasRoot(x[1], e[2]) /\ HasRoot(x[2], e[2])

\* x ** e for a rational exponent e = p/q: the q-th root, then the p-th power
Pow(x, e) ==
  LET r == Frac(Root(x[1], e[2]), Root(x[2], e[2]))
  IN IF e[1] >= 0 THEN IPow(r, e[1]) ELSE RDiv(One, IPow(r, -e[1]))

-----------------------------------------------------------------------------
(* Log-forms: c + SUM l[p] * ln(p) over primes p *)

\* the function f restricted to the arguments where it is not zero
NonZero(f) == [p \in {q \in DOMAIN f : ~IsZero(f[q])} |-> f[p]]

NoLogs == [p \in {} |-> Zero]
EZero == [c |-> Zero, l |-> NoLogs]
ERat(x) == [c |-> x, l |-> NoLogs]

LAt(f, p) == IF p \in DOMAIN f THEN f[p] ELSE Zero
LAdd(f, g) == NonZero([p \in (DOMAIN f) \cup (DOMAIN g) |-> RAdd(LAt(f, p), LAt(g, p))])
LScale(k, f) == NonZero([p \in DOMAIN f |-> RMul(k, f[p])])

EAdd(a, b) == [c |-> RAdd(a.c, b.c), l |-> LAdd(a.l, b.l)]
EScale(k, a) == [c |-> RMul(k, a.c), l |-> LScale(k, a.l)]
ESub(a, b) == EAdd(a, EScale(Q(-1), b))
EIsZero(a) == IsZero(a.c) /\ DOMAIN a.l = {}

RECURSIVE Factor(_, _)
\* the prime factorisation of n >= 1 as prime :> exponent, by trial division from p
Factor(n, p) ==
  IF n = 1 THEN NoLogs
  ELSE IF p * p > n THEN (n :> One)
  ELSE IF n % p = 0 THEN LAdd((p :> One), Factor(n \div p, p))
  ELSE Factor(n, p + 1)

\* ln(x) for a rational x > 0
Ln(x) == [c |-> Zero, l |-> LAdd(Factor(x[1], 2), LScale(Q(-1), Factor(x[2], 2)))]

RECURSIVE ExpL(_)
\* exp(SUM l[p] * ln(p)) for integer coefficients l[p]: the product of p^l[p]
ExpL(l) ==
  IF DOMAIN l = {} THEN One
  ELSE LET p == CHOOSE q \in DOMAIN l : TRUE
       IN RMul(Pow(Q(p), l[p]), ExpL([q \in (DOMAIN l) \ {p} |-> l[q]]))

\* whether exp(a) is a rational the model can name
HasExp(a) == IsZero(a.c) /\ \A p \in DOMAIN a.l : a.l[p][2] = 1
\* np.exp(a)
Exp(a) == ExpL(a.l)

RECURSIVE LCMDen(_)
\* a common multiple of the denominators of the coefficients of l
LCMDen(l) ==
  IF DOMAIN l = {} THEN 1
  ELSE LET p == CHOOSE q \in DOMAIN l : TRUE
       IN l[p][2] * LCMDen([q \in (DOMAIN l) \ {p} |-> l[q]])

\* whether the sign of a is decided in the model: a rational, or a rational
\* multiple of the logarithm of a rational
HasSign(a) == IsZero(a.c) \/ DOMAIN a.l = {}
\* a > 0 and a <= 0 (HasSign(a)): k*ln(x) > 0 exactly when x^k > 1
EPos(a) ==
  IF DOMAIN a.l = {} THEN RPos(a.c)
  ELSE IF \A p \in DOMAIN a.l : RPos(a.l[p]) THEN TRUE
  ELSE IF \A p \in DOMAIN a.l : ~RPos(a.l[p]) THEN FALSE
  ELSE RLt(One, ExpL(LScale(Q(LCMDen(a.l)), a.l)))
ELeZero(a) == ~EPos(a)

\* a / b for log-forms that are rational multiples of one another (b # 0)
Proportional(a, b) ==
  \/ DOMAIN b.l = {} /\ DOMAIN a.l = {}
  \/ /\ DOMAIN b.l # {}
     /\ LET p == CHOOSE q \in DOMAIN b.l : TRUE
        IN a = EScale(RDiv(LAt(a.l, p), b.l[p]), b)
EDiv(a, b) ==
  IF DOMAIN b.l = {} THEN RDiv(a.c, b.c)
  ELSE LET p == CHOOSE q \in DOMAIN b.l : TRUE IN RDiv(LAt(a.l, p), b.l[p])

-----------------------------------------------------------------------------
(* Tables (pandas DataFrames): the set of column names and the rows in     *)
(* order, each row a function from column name to value                    *)

DataFrame(columns, rows) == [columns |-> columns, rows |-> rows]
NoTable == DataFrame({}, <<>>)
NRows(df) == Len(df.rows)

\* a rename that renames nothing
Unrenamed(df, old, new) == df

\* df.rename(columns={old: new})
Rename(df, old, new) ==
  LET ren(c) == IF c = old THEN new ELSE c
  IN DataFrame({ren(c) : c \in df.columns},
               [k \in 1..Len(df.rows) |->
                  [c \in {ren(d) : d \in df.columns} |->
                     IF c = new THEN df.rows[k][old] ELSE df.rows[k][c]]])

-----------------------------------------------------------------------------
(* Ideal-gas process samplers: src/core/process_paths.py *)

PathColumns == {"P_kPa", "v_m3_per_kg", "T_K", "s_kJ_per_kgK"}
Sample(P, V, T, s) ==
  [P_kPa |-> P, v_m3_per_kg |-> V, T_K |-> T, s_kJ_per_kgK |-> s]

\* np.linspace(a, b, n)[k], k = 0..n-1
Linspace(a, b, n, k) == RAdd(a, RDiv(RMul(Q(k), RSub(b, a)), Q(n - 1)))

cv_from_gamma_R(gamma, R) ==
  LET cv == RDiv(R, RSub(gamma, One))
  IN [cp |-> RMul(gamma, cv), cv |-> cv]

\* P V^gamma = const, T V^(gamma-1) = const, s constant
path_isentropic_ideal(Pa, Va, Ta, Pb, Vb, gamma, R, n, s_a) ==
  LET Cpv == RMul(Pa, Pow(Va, gamma))
  IN [k \in 1..n |->
        LET V == Linspace(Va, Vb, n, k - 1)
        IN Sample(RDiv(Cpv, Pow(V, gamma)), V,
                  RMul(Ta, Pow(RDiv(Va, V), RSub(gamma, One))), s_a)]

\* a constant-volume leg sampled along the line of constant pressure through
\* its start
path_const_v_as_p(Vconst, Ta, Tb, R, n, s_a, gamma) ==
  LET Pa == RDiv(RMul(R, Ta), Vconst)
      c == cv_from_gamma_R(gamma, R)
  IN [k \in 1..n |->
        LET T == Linspace(Ta, Tb, n, k - 1)
        IN Sample(Pa, RDiv(RMul(R, T), Pa), T,
                  EAdd(s_a, EScale(c.cv, Ln(RDiv(T, Ta)))))]

path_const_v_ideal(Vconst, Ta, Tb, R, n, s_a, gamma) ==
  LET c == cv_from_gamma_R(gamma, R)
  IN [k \in 1..n |->
        LET T == Linspace(Ta, Tb, n, k - 1)
        IN Sample(RDiv(RMul(R, T), Vconst), Vconst, T,
                  EAdd(s_a, EScale(c.cv, Ln(RDiv(T, Ta)))))]

path_const_p_ideal(Pconst, Ta, Tb, R, n, s_a, gamma) ==
  LET c == cv_from_gamma_R(gamma, R)
  IN [k \in 1..n |->
        LET T == Linspace(Ta, Tb, n, k - 1)
        IN Sample(Pconst, RDiv(RMul(R, T), Pconst), T,
                  EAdd(s_a, EScale(c.cp, Ln(RDiv(T, Ta)))))]

path_isothermal_ideal(Tconst, Va, Vb, R, n, s_a) ==
  [k \in 1..n |->
     LET V == Linspace(Va, Vb, n, k - 1)
     IN Sample(RDiv(RMul(R, Tconst), V), V, Tconst,
               EAdd(s_a, EScale(R, Ln(RDiv(V, Va)))))]

-----------------------------------------------------------------------------
(* The path sampler: smooth_path_ideal, src/core/process_paths.py:46-113 *)

NIsen == 90
NCv == 70
NCp == 70
NIsoth == 90

LegKinds == {"isen", "cv", "cp", "isoth"}

\* the entropy column of the states table: the absolute one first, then the
\* relative one, "None" when the table has neither
scol(df) ==
  IF "s_kJ_per_kgK" \in df.columns THEN "s_kJ_per_kgK"
  ELSE IF "s_rel_kJ_per_kgK" \in df.columns THEN "s_rel_kJ_per_kgK"
  ELSE "None"

\* states_df.loc[states_df["State"] == k] is not empty
HasRow(df, k) == \E m \in 1..NRows(df) : df.rows[m]["State"] = k

\* a lookup by row position: the k-th row
rowAt(df, k) == df.rows[k]

\* row(k): the first row whose State is k
row(df, k) ==
  df.rows[CHOOSE m \in 1..NRows(df) :
            /\ df.rows[m]["State"] = k
            /\ \A q \in 1..(m - 1) : df.rows[q]["State"] # k]

\* a sampler that anchors every leg at entropy 0
AnchorZero(df, a) == EZero

\* a sampler that anchors every leg at the entropy of the table's first row
AnchorFirstRow(df, a) == IF scol(df) # "None" THEN df.rows[1][scol(df)] ELSE EZero

\* s_a = float(a[scol]) if scol else 0.0
Anchor(df, a) == IF scol(df) # "None" THEN a[scol(df)] ELSE EZero

\* the exception one turn of the loop raises on this leg, "" when it raises none:
\* row(i), row(j) come first, then the dispatch on the kind
LegError(df, leg, gamma, R) ==
  IF ~HasRow(df, leg[2]) \/ ~HasRow(df, leg[3]) THEN "IndexError"
  ELSE IF leg[1] \notin LegKinds THEN "ValueError: Unknown leg kind"
  ELSE IF leg[1] \in {"cv", "cp"} /\ gamma = One THEN "ZeroDivisionError"
  ELSE ""

\* seg: the samples of one leg, by its kind
Segment(df, leg, gamma, R) ==
  LET a == row(df, leg[2])
      b == row(df, leg[3])
      s_a == Anchor(df, a)
  IN CASE leg[1] = "isen" ->
            path_isentropic_ideal(a["P_kPa"], a["v_m3_per_kg"], a["T_K"],
                                  b["P_kPa"], b["v_m3_per_kg"], gamma, R, NIsen, s_a)
       [] leg[1] = "cv" ->
            path_const_v_ideal(a["v_m3_per_kg"], a["T_K"], b["T_K"], R, NCv, s_a, gamma)
       [] leg[1] = "cp" ->
            path_const_p_ideal(a["P_kPa"], a["T_K"], b["T_K"], R, NCp, s_a, gamma)
       [] leg[1] = "isoth" ->
            path_isothermal_ideal(a["T_K"], a["v_m3_per_kg"], b["v_m3_per_kg"], R,
                                  NIsoth, s_a)

\* a sampler that drops no sample
KeptWhole(seg, idx) == seg

\* seg.iloc[1:] for every leg after the first
Kept(seg, idx) == IF idx > 1 THEN Tail(seg) ELSE seg

RECURSIVE Concat(_)
\* pd.concat(out, ignore_index=True): the rows of the segments, in order
Concat(out) == IF out = <<>> THEN <<>> ELSE Head(out) \o Concat(Tail(out))

RECURSIVE LegLoopSkipping(_, _, _, _, _, _)
\* a loop that passes over a leg of a kind it does not know
LegLoopSkipping(df, legs, gamma, R, idx, out) ==
  IF idx > Len(legs) THEN [err |-> "", out |-> out]
  ELSE IF LegError(df, legs[idx], gamma, R) = "ValueError: Unknown leg kind"
       THEN LegLoopSkipping(df, legs, gamma, R, idx + 1, out)
  ELSE IF LegError(df, legs[idx], gamma, R) # ""
       THEN [err |-> LegError(df, legs[idx], gamma, R), out |-> <<>>]
  ELSE LegLoopSkipping(df, legs, gamma, R, idx + 1,
                       Append(out, Kept(Segment(df, legs[idx], gamma, R), idx)))

RECURSIVE LegLoop(_, _, _, _, _, _)
\* the for loop from its idx-th turn on; out holds the segments appended so far
LegLoop(df, legs, gamma, R, idx, out) ==
  IF idx > Len(legs) THEN [err |-> "", out |-> out]
  ELSE IF LegError(df, legs[idx], gamma, R) # ""
       THEN [err |-> LegError(df, legs[idx], gamma, R), out |-> <<>>]
  ELSE LegLoop(df, legs, gamma, R, idx + 1,
               Append(out, Kept(Segment(df, legs[idx], gamma, R), idx)))

\* the call: [err |-> the exception raised or "", df |-> the path returned]
smooth_path_ideal(df, legs, gamma, R) ==
  LET loop == LegLoop(df, legs, gamma, R, 1, <<>>)
      cat == DataFrame(PathColumns, Concat(loop.out))
  IN IF loop.err # "" THEN [err |-> loop.err, df |-> NoTable]
     ELSE IF loop.out = <<>>
          THEN [err |-> "ValueError: No objects to concatenate", df |-> NoTable]
     ELSE IF scol(df) # "None" /\ scol(df) # "s_kJ_per_kgK"
          THEN [err |-> "", df |-> Rename(cat, "s_kJ_per_kgK", scol(df))]
     ELSE [err |-> "", df |-> cat]

-----------------------------------------------------------------------------
(* What a solver call comes to: the exception it raised, or the tables and  *)
(* the metrics it returned                                                  *)

NoMetrics == [k \in {} |-> Zero]
Raise(e) == [err |-> e, states |-> NoTable, metrics |-> NoMetrics]
Return(states, m) == [err |-> "", states |-> states, metrics |-> m]

\* every division of Python floats by 0.0 raises this
ZeroDivisionError == "ZeroDivisionError: float division by zero"

\* a table whose volume column is filled with the pressures and the pressure
\* column with the volumes
StatesTableSwapped(P, T, v, s, sname) ==
  DataFrame({"State", "P_kPa", "T_K", "v_m3_per_kg", sname},
            [k \in 1..Len(P) |->
               [c \in {"State", "P_kPa", "T_K", "v_m3_per_kg", sname} |->
                  CASE c = "State" -> k
                    [] c = "P_kPa" -> v[k]
                    [] c = "T_K" -> T[k]
                    [] c = "v_m3_per_kg" -> P[k]
                    [] OTHER -> s[k]]])

\* the states table of an air-standard solver: State 1..n with P, T, v and the
\* entropy column named sname
StatesTable(P, T, v, s, sname) ==
  DataFrame({"State", "P_kPa", "T_K", "v_m3_per_kg", sname},
            [k \in 1..Len(P) |->
               [c \in {"State", "P_kPa", "T_K", "v_m3_per_kg", sname} |->
                  CASE c = "State" -> k
                    [] c = "P_kPa" -> P[k]
                    [] c = "T_K" -> T[k]
                    [] c = "v_m3_per_kg" -> v[k]
                    [] OTHER -> s[k]]])

-----------------------------------------------------------------------------
(* Otto: src/cycles/otto.py *)

otto_metrics(eta, Qin, Qout, Wnet, r) ==
  [eta_th |-> eta, Qin_kJ_per_kg |-> Qin, Qout_kJ_per_kg |-> Qout,
   Wnet_kJ_per_kg |-> Wnet, compression_ratio_r |-> r]

\* the checks at the head of the function: the message raised, "" when none
otto_validate(T1_K, r, T3_K) ==
  IF RLe(r, One) THEN "ValueError: Compression ratio r must be > 1"
  ELSE IF RLe(T3_K, T1_K) THEN "ValueError: T3 must be > T1"
  ELSE ""

otto_cycle(T1_K, P1_kPa, r, T3_K, gamma, R_kJkgK) ==
  IF otto_validate(T1_K, r, T3_K) # "" THEN Raise(otto_validate(T1_K, r, T3_K))
  ELSE IF gamma = One \/ IsZero(P1_kPa) THEN Raise(ZeroDivisionError)
  ELSE
    LET cv == RDiv(R_kJkgK, RSub(gamma, One))
        v1 == RDiv(RMul(R_kJkgK, T1_K), P1_kPa)
        v2 == RDiv(v1, r)
        T2 == RMul(T1_K, Pow(r, RSub(gamma, One)))
        P2 == RMul(P1_kPa, Pow(r, gamma))
        v3 == v2
    IN IF IsZero(v3) THEN Raise(ZeroDivisionError)
       ELSE
         LET P3 == RDiv(RMul(R_kJkgK, T3_K), v3)
             v4 == v1
             T4 == RDiv(T3_K, Pow(r, RSub(gamma, One)))
             P4 == RDiv(P3, Pow(r, gamma))
             Qin == RMul(cv, RSub(T3_K, T2))
             Qout == RMul(cv, RSub(T4, T1_K))
             Wnet == RSub(Qin, Qout)
         IN IF IsZero(Qin) THEN Raise(ZeroDivisionError)
            ELSE
              LET eta == RSub(One, RDiv(Qout, Qin))
                  s1 == EZero
                  s2 == s1
                  s3 == EAdd(s2, EScale(cv, Ln(RDiv(T3_K, T2))))
                  s4 == s3
              IN Return(StatesTable(<<P1_kPa, P2, P3, P4>>, <<T1_K, T2, T3_K, T4>>,
                                    <<v1, v2, v3, v4>>, <<s1, s2, s3, s4>>,
                                    "s_rel_kJ_per_kgK"),
                        otto_metrics(eta, Qin, Qout, Wnet, r))

-----------------------------------------------------------------------------
(* Diesel: src/cycles/diesel.py *)

diesel_metrics(eta, Qin, Qout, Wnet, r, rc) ==
  [eta_th |-> eta, Qin_kJ_per_kg |-> Qin, Qout_kJ_per_kg |-> Qout,
   Wnet_kJ_per_kg |-> Wnet, compression_ratio_r |-> r, cutoff_ratio_rc |-> rc]

diesel_validate(r, rc) ==
  IF RLe(r, One) THEN "ValueError: Compression ratio r must be > 1"
  ELSE IF RLe(rc, One) THEN "ValueError: Cutoff ratio rc must be > 1"
  ELSE ""

diesel_cycle(T1_K, P1_kPa, r, rc, gamma, R_kJkgK) ==
  IF diesel_validate(r, rc) # "" THEN Raise(diesel_validate(r, rc))
  ELSE IF gamma = One \/ IsZero(P1_kPa) THEN Raise(ZeroDivisionError)
  ELSE
    LET cv == RDiv(R_kJkgK, RSub(gamma, One))
        cp == RMul(gamma, cv)
        v1 == RDiv(RMul(R_kJkgK, T1_K), P1_kPa)
        v2 == RDiv(v1, r)
        T2 == RMul(T1_K, Pow(r, RSub(gamma, One)))
        P2 == RMul(P1_kPa, Pow(r, gamma))
        v3 == RMul(rc, v2)
        T3 == RMul(T2, rc)
        P3 == P2
        v4 == v1
    IN IF IsZero(v4) THEN Raise(ZeroDivisionError)
       ELSE
         LET T4 == RMul(T3, Pow(RDiv(v3, v4), RSub(gamma, One)))
             P4 == RMul(P3, Pow(RDiv(v3, v4), gamma))
             Qin == RMul(cp, RSub(T3, T2))
             Qout == RMul(cv, RSub(T4, T1_K))
             Wnet == RSub(Qin, Qout)
         IN IF IsZero(Qin) \/ IsZero(T2) THEN Raise(ZeroDivisionError)
            ELSE
              LET eta == RSub(One, RDiv(Qout, Qin))
                  s1 == EZero
                  s2 == s1
                  s3 == EAdd(s2, EScale(cp, Ln(RDiv(T3, T2))))
                  s4 == s3
              IN Return(StatesTable(<<P1_kPa, P2, P3, P4>>, <<T1_K, T2, T3, T4>>,
                                    <<v1, v2, v3, v4>>, <<s1, s2, s3, s4>>,
                                    "s_rel_kJ_per_kgK"),
                        diesel_metrics(eta, Qin, Qout, Wnet, r, rc))

-----------------------------------------------------------------------------
(* Dual: src/cycles/dual.py *)

dual_metrics(eta, Qin, Qout, Wnet, r, alpha, rc) ==
  [eta_th |-> eta, Qin_kJ_per_kg |-> Qin, Qout_kJ_per_kg |-> Qout,
   Wnet_kJ_per_kg |-> Wnet, compression_ratio_r |-> r,
   alpha_P3_over_P2 |-> alpha, cutoff_ratio_rc |-> rc]

dual_validate(r, alpha, rc) ==
  IF RLe(r, One) THEN "ValueError: Compression ratio r must be > 1"
  ELSE IF RLe(alpha, One) THEN "ValueError: alpha (P3/P2) must be > 1"
  ELSE IF RLe(rc, One) THEN "ValueError: rc (v4/v3) must be > 1"
  ELSE ""

dual_cycle(T1_K, P1_kPa, r, alpha, rc, gamma, R_kJkgK) ==
  IF dual_validate(r, alpha, rc) # "" THEN Raise(dual_validate(r, alpha, rc))
  ELSE IF gamma = One \/ IsZero(P1_kPa) THEN Raise(ZeroDivisionError)
  ELSE
    LET cv == RDiv(R_kJkgK, RSub(gamma, One))
        cp == RMul(gamma, cv)
        v1 == RDiv(RMul(R_kJkgK, T1_K), P1_kPa)
        v2 == RDiv(v1, r)
        T2 == RMul(T1_K, Pow(r, RSub(gamma, One)))
        P2 == RMul(P1_kPa, Pow(r, gamma))
        P3 == RMul(alpha, P2)
        T3 == RMul(alpha, T2)
        v3 == v2
        v4 == RMul(rc, v3)
        T4 == RMul(rc, T3)
        P4 == P3
        v5 == v1
    IN IF IsZero(v5) THEN Raise(ZeroDivisionError)
       ELSE
         LET T5 == RMul(T4, Pow(RDiv(v4, v5), RSub(gamma, One)))
             P5 == RMul(P4, Pow(RDiv(v4, v5), gamma))
             Qin_cv == RMul(cv, RSub(T3, T2))
             Qin_cp == RMul(cp, RSub(T4, T3))
             Qin == RAdd(Qin_cv, Qin_cp)
             Qout == RMul(cv, RSub(T5, T1_K))
             Wnet == RSub(Qin, Qout)
         IN IF IsZero(Qin) \/ IsZero(T2) \/ IsZero(T3) THEN Raise(ZeroDivisionError)
            ELSE
              LET eta == RSub(One, RDiv(Qout, Qin))
                  s1 == EZero
                  s2 == s1
                  s3 == EAdd(s2, EScale(cv, Ln(RDiv(T3, T2))))
                  s4 == EAdd(s3, EScale(cp, Ln(RDiv(T4, T3))))
                  s5 == s4
              IN Return(StatesTable(<<P1_kPa, P2, P3, P4, P5>>, <<T1_K, T2, T3, T4, T5>>,
                                    <<v1, v2, v3, v4, v5>>, <<s1, s2, s3, s4, s5>>,
                                    "s_rel_kJ_per_kgK"),
                        dual_metrics(eta, Qin, Qout, Wnet, r, alpha, rc))

-----------------------------------------------------------------------------
(* Brayton: src/cycles/brayton.py *)

\* metrics whose net work is compressor work minus turbine work
brayton_metrics_swapped(Wc, Wt, Wnet, Qin, eta, bwr) ==
  [Wc_kJ_per_kg |-> Wc, Wt_kJ_per_kg |-> Wt, Wnet_kJ_per_kg |-> RSub(Wc, Wt),
   Qin_kJ_per_kg |-> Qin, eta_th |-> eta, back_work_ratio |-> bwr]

brayton_metrics(Wc, Wt, Wnet, Qin, eta, bwr) ==
  [Wc_kJ_per_kg |-> Wc, Wt_kJ_per_kg |-> Wt, Wnet_kJ_per_kg |-> Wnet,
   Qin_kJ_per_kg |-> Qin, eta_th |-> eta, back_work_ratio |-> bwr]

\* a check that lets rp = 1 through
brayton_validate_below(rp) ==
  IF RLt(rp, One) THEN "ValueError: Pressure ratio rp must be > 1" ELSE ""

brayton_validate(rp) ==
  IF RLe(rp, One) THEN "ValueError: Pressure ratio rp must be > 1" ELSE ""

brayton_ideal(P1_kPa, T1_K, rp, T3_K, gamma, cp_kJkgK, R_kJkgK) ==
  IF brayton_validate(rp) # "" THEN Raise(brayton_validate(rp))
  ELSE IF IsZero(gamma) \/ IsZero(P1_kPa) \/ IsZero(T1_K) \/ IsZero(T3_K)
       THEN Raise(ZeroDivisionError)
  ELSE
    LET P2 == RMul(P1_kPa, rp)
        P3 == P2
        P4 == P1_kPa
        exp == RDiv(RSub(gamma, One), gamma)
        T2 == RMul(T1_K, Pow(rp, exp))
        T4 == RMul(T3_K, Pow(RDiv(One, rp), exp))
        v1 == RDiv(RMul(R_kJkgK, T1_K), P1_kPa)
        v2 == RDiv(RMul(R_kJkgK, T2), P2)
        v3 == RDiv(RMul(R_kJkgK, T3_K), P3)
        v4 == RDiv(RMul(R_kJkgK, T4), P4)
        s1 == EZero
        s2 == ESub(EAdd(s1, EScale(cp_kJkgK, Ln(RDiv(T2, T1_K)))),
                   EScale(R_kJkgK, Ln(RDiv(P2, P1_kPa))))
        s3 == EAdd(s2, EScale(cp_kJkgK, Ln(RDiv(T3_K, T2))))
        s4 == ESub(EAdd(s3, EScale(cp_kJkgK, Ln(RDiv(T4, T3_K)))),
                   EScale(R_kJkgK, Ln(RDiv(P4, P3))))
        Wc == RMul(cp_kJkgK, RSub(T2, T1_K))
        Wt == RMul(cp_kJkgK, RSub(T3_K, T4))
        Wnet == RSub(Wt, Wc)
        Qin == RMul(cp_kJkgK, RSub(T3_K, T2))
        Qout == RMul(cp_kJkgK, RSub(T4, T1_K))
    IN IF IsZero(Qin) \/ IsZero(Wt) THEN Raise(ZeroDivisionError)
       ELSE
         LET eta == RSub(One, RDiv(Qout, Qin))
         IN Return(StatesTable(<<P1_kPa, P2, P3, P4>>, <<T1_K, T2, T3_K, T4>>,
                               <<v1, v2, v3, v4>>, <<s1, s2, s3, s4>>,
                               "s_rel_kJ_per_kgK"),
                   brayton_metrics(Wc, Wt, Wnet, Qin, eta, RDiv(Wc, Wt)))

-----------------------------------------------------------------------------
(* Carnot: src/cycles/carnot.py.  delta_s is a log-form: the call takes     *)
(* np.exp(delta_s / R), which is rational only for a delta_s that is R      *)
(* times the logarithm of a rational.                                       *)

\* the second message reads "ds" for the source's Greek delta followed by s
carnot_validate(Th_K, Tc_K, delta_s_kJkgK) ==
  IF RLe(Th_K, Tc_K) THEN "ValueError: Th must be > Tc for Carnot cycle."
  ELSE IF ELeZero(delta_s_kJkgK) THEN "ValueError: ds must be > 0"
  ELSE ""

CarnotModes == {"engine", "refrigerator", "heat_pump"}

\* a metrics dict that reports every mode's figures whatever the mode
carnot_metrics_all(mode, Th_K, Tc_K, Qh, Qc, Wnet) ==
  [mode |-> mode, Q_in_kJ_per_kg |-> Qh, Q_out_kJ_per_kg |-> Qc,
   W_net_kJ_per_kg |-> Wnet, Q_cold_kJ_per_kg |-> Qc, Q_hot_kJ_per_kg |-> Qh,
   W_in_kJ_per_kg |-> Wnet, eta_th |-> RSub(One, RDiv(Tc_K, Th_K)),
   COP_R |-> EDiv(Qc, Wnet), COP_HP |-> EDiv(Qh, Wnet)]

\* a metrics dict whose efficiency divides Tc by the heat taken in (in units
\* of ln 2) where the function divides by Th
carnot_metrics_heat(mode, Th_K, Tc_K, Qh, Qc, Wnet) ==
  [mode |-> "Heat engine", Q_in_kJ_per_kg |-> Qh, Q_out_kJ_per_kg |-> Qc,
   W_net_kJ_per_kg |-> Wnet, eta_th |-> RSub(One, RDiv(Tc_K, LAt(Qh.l, 2)))]

\* the metrics dict of a mode the function knows
carnot_metrics(mode, Th_K, Tc_K, Qh, Qc, Wnet) ==
  CASE mode = "engine" ->
         [mode |-> "Heat engine", Q_in_kJ_per_kg |-> Qh, Q_out_kJ_per_kg |-> Qc,
          W_net_kJ_per_kg |-> Wnet, eta_th |-> RSub(One, RDiv(Tc_K, Th_K))]
    [] mode = "refrigerator" ->
         [mode |-> "Refrigerator", Q_cold_kJ_per_kg |-> Qc, W_in_kJ_per_kg |-> Wnet,
          COP_R |-> EDiv(Qc, Wnet)]
    [] mode = "heat_pump" ->
         [mode |-> "Heat pump", Q_hot_kJ_per_kg |-> Qh, W_in_kJ_per_kg |-> Wnet,
          COP_HP |-> EDiv(Qh, Wnet)]

carnot_cycle(Th_K, Tc_K, delta_s_kJkgK, mode, gamma, R_kJkgK, v1) ==
  IF carnot_validate(Th_K, Tc_K, delta_s_kJkgK) # ""
  THEN Raise(carnot_validate(Th_K, Tc_K, delta_s_kJkgK))
  ELSE IF IsZero(R_kJkgK) \/ gamma = One \/ IsZero(Tc_K) \/ IsZero(v1)
       THEN Raise(ZeroDivisionError)
  ELSE
    LET s1 == EZero
        s2 == delta_s_kJkgK
        v2 == RMul(v1, Exp(EScale(RDiv(One, R_kJkgK), delta_s_kJkgK)))
        factor == Pow(RDiv(Th_K, Tc_K), RDiv(One, RSub(gamma, One)))
        v3 == RMul(v2, factor)
        v4 == RMul(v1, factor)
        P1 == RDiv(RMul(R_kJkgK, Th_K), v1)
        P2 == RDiv(RMul(R_kJkgK, Th_K), v2)
        P3 == RDiv(RMul(R_kJkgK, Tc_K), v3)
        P4 == RDiv(RMul(R_kJkgK, Tc_K), v4)
        states == StatesTable(<<P1, P2, P3, P4>>, <<Th_K, Th_K, Tc_K, Tc_K>>,
                              <<v1, v2, v3, v4>>, <<s1, s2, s2, s1>>, "s_kJ_per_kgK")
        Qh == EScale(Th_K, ESub(s2, s1))
        Qc == EScale(Tc_K, ESub(s2, s1))
        Wnet == ESub(Qh, Qc)
    IN IF mode \in CarnotModes
       THEN Return(states, carnot_metrics(mode, Th_K, Tc_K, Qh, Qc, Wnet))
       ELSE Raise("ValueError: mode must be one of: engine, refrigerator, heat_pump")

-----------------------------------------------------------------------------
(* The Property Provider (IAPWS97, CoolProp's PropsSI): an external library. *)
(* It is modelled as a stateless lookup: a provider is a seed that fixes the *)
(* value it returns for every query, with the kinds of query and the       *)
(* single queries it fails on.  The values are arbitrary positive           *)
(* rationals, a function of the query alone.                                *)

NoProvider == [seed |-> 0, kinds |-> {}, lookups |-> {}]

\* a quality: absent, not-a-number, or a number
None == <<"None", Zero>>
NaN == <<"nan", Zero>>
Num(x) == <<"num", x>>

\* IAPWS97(P=..., <by>=val); the pressure is kept as its logarithm, which
\* names the points of np.geomspace exactly
SteamQuery(lnP, by, val) == [lib |-> "IAPWS97", lnP |-> lnP, by |-> by, val |-> val]
\* PropsSI(out, in1, v1, in2, v2, fluid)
PropsQuery(out, in1, v1, in2, v2, fluid) ==
  [lib |-> "PropsSI", out |-> out, in1 |-> in1, v1 |-> v1, in2 |-> in2, v2 |-> v2,
   fluid |-> fluid]

\* the kind of a query: what is asked for and from which pair of variables
Kind(q) ==
  IF q.lib = "IAPWS97" THEN <<"state", "P", q.by>> ELSE <<q.out, q.in1, q.in2>>
\* the provider fails on every query of some kinds and on some single queries
Fails(prov, q) == Kind(q) \in prov.kinds \/ q \in prov.lookups
ProviderError == "ProviderError: lookup failed"

RCode(x) == Abs(x[1]) + 2 * x[2]
RECURSIVE LCode(_)
LCode(l) ==
  IF DOMAIN l = {} THEN 0
  ELSE LET p == CHOOSE q \in DOMAIN l : TRUE
       IN p * RCode(l[p]) + LCode([q \in (DOMAIN l) \ {p} |-> l[q]])
ByCode(by) ==
  CASE by \in {"x", "Q"} -> 1 [] by \in {"h", "H"} -> 2 [] by \in {"T"} -> 3
    [] by \in {"s", "S"} -> 4 [] by \in {"P"} -> 5 [] OTHER -> 6
QueryCode(q) ==
  IF q.lib = "IAPWS97"
  THEN RCode(q.lnP.c) + LCode(q.lnP.l) + 3 * ByCode(q.by) + RCode(q.val)
  ELSE 5 * ByCode(q.in1) + RCode(q.v1) + 3 * ByCode(q.in2) + 7 * RCode(q.v2)

\* the values a provider may return
MaxValue == 5
\* the value of property prop (ByCode) the provider returns for query q
Value(prov, q, prop) ==
  Q(1 + (((prov.seed + 1) * QueryCode(q) + (prov.seed + 2) * prop) % MaxValue))
\* the quality it returns: absent outside the two-phase region
QualityValue(prov, q) ==
  CASE (prov.seed + QueryCode(q)) % 5 = 0 -> None
    [] (prov.seed + QueryCode(q)) % 5 = 1 -> NaN
    [] (prov.seed + QueryCode(q)) % 5 = 2 -> Num(Zero)
    [] (prov.seed + QueryCode(q)) % 5 = 3 -> Num(Frac(1, 2))
    [] OTHER -> Num(One)

\* the state object IAPWS97 returns
SteamState(prov, q) ==
  [T |-> Value(prov, q, 3), h |-> Value(prov, q, 2), s |-> Value(prov, q, 4),
   v |-> Value(prov, q, 6), x |-> QualityValue(prov, q)]

-----------------------------------------------------------------------------
(* Results of a real-fluid solver: the exception or the three tables, and   *)
(* the lookups it made, in order                                            *)

FluidRaise(e, log) ==
  [err |-> e, states |-> NoTable, metrics |-> NoMetrics, sat |-> NoTable, log |-> log]
FluidReturn(states, m, sat, log) ==
  [err |-> "", states |-> states, metrics |-> m, sat |-> sat, log |-> log]

\* the quality as the provider gives it, not-a-number included
safe_quality_raw(st) == st.x

\* _safe_quality(st): None for an absent or not-a-number quality
safe_quality(st) == IF st.x[1] = "num" THEN st.x ELSE None

\* the states table of a steam cycle
SteamTable(P, st, h) ==
  DataFrame({"State", "P_kPa", "T_K", "h_kJ_per_kg", "s_kJ_per_kgK", "v_m3_per_kg",
             "x_quality"},
            [k \in 1..Len(P) |->
               [State |-> k, P_kPa |-> P[k], T_K |-> st[k].T, h_kJ_per_kg |-> h[k],
                s_kJ_per_kgK |-> st[k].s, v_m3_per_kg |-> st[k].v,
                x_quality |-> safe_quality(st[k])]])

\* log(np.geomspace(a, b, n)[k]), k = 0..n-1
LnGeomspace(a, b, n, k) == EAdd(Ln(a), EScale(Frac(k, n - 1), ESub(Ln(b), Ln(a))))

\* the lookups of the dome loop over np.geomspace(Pc, Pb, n): f and g in turn
DomeQueries(Pc, Pb, n) ==
  [j \in 1..(2 * n) |->
     SteamQuery(LnGeomspace(Pc, Pb, n, (j - 1) \div 2), "x",
                IF j % 2 = 1 THEN Zero ELSE One)]
\* the first lookup of qs the provider fails on, 0 when it fails on none
FirstFailure(prov, qs) ==
  IF \E j \in 1..Len(qs) : Fails(prov, qs[j])
  THEN CHOOSE j \in 1..Len(qs) :
         Fails(prov, qs[j]) /\ \A i \in 1..(j - 1) : ~Fails(prov, qs[i])
  ELSE 0
dome_df(prov, qs) ==
  DataFrame({"T_K", "s_f", "s_g"},
            [k \in 1..(Len(qs) \div 2) |->
               [T_K |-> SteamState(prov, qs[2 * k - 1]).T,
                s_f |-> SteamState(prov, qs[2 * k - 1]).s,
                s_g |-> SteamState(prov, qs[2 * k]).s]])
\* the dome loop after the lookups in log: the call's result
Dome(prov, Pc, Pb, n, states, m, log) ==
  LET qs == DomeQueries(Pc, Pb, n)
      bad == FirstFailure(prov, qs)
  IN IF bad # 0 THEN FluidRaise(ProviderError, log \o SubSeq(qs, 1, bad))
     ELSE FluidReturn(states, m, dome_df(prov, qs), log \o qs)

Kelvin(T_C) == RAdd(T_C, Frac(27315, 100))

-----------------------------------------------------------------------------
(* Rankine: src/cycles/rankine_basic.py *)

NDomeRankine == 80

rankine_validate(Pc_kPa, Pb_kPa) ==
  IF RLe(Pc_kPa, Zero) \/ RLe(Pb_kPa, Zero) THEN "ValueError: Pressures must be > 0"
  ELSE IF RLe(Pb_kPa, Pc_kPa)
       THEN "ValueError: Boiler pressure must be > condenser pressure"
  ELSE ""

\* metrics that report the turbine work as the net work
rankine_metrics_gross(wp, wt, wnet, qin, eta, x4) ==
  [wp_kJ_per_kg |-> wp, wt_kJ_per_kg |-> wt, Wnet_kJ_per_kg |-> wt,
   Qin_kJ_per_kg |-> qin, eta_th |-> eta, turbine_exit_quality_x |-> x4]

rankine_metrics(wp, wt, wnet, qin, eta, x4) ==
  [wp_kJ_per_kg |-> wp, wt_kJ_per_kg |-> wt, Wnet_kJ_per_kg |-> wnet,
   Qin_kJ_per_kg |-> qin, eta_th |-> eta, turbine_exit_quality_x |-> x4]

\* T3_C is None (saturated vapor at Pb) or Num(t) (superheated at t)
rankine_ideal(prov, Pc_kPa, Pb_kPa, T3_C) ==
  IF rankine_validate(Pc_kPa, Pb_kPa) # ""
  THEN FluidRaise(rankine_validate(Pc_kPa, Pb_kPa), <<>>)
  ELSE
    LET Pc == RDiv(Pc_kPa, Q(1000))
        Pb == RDiv(Pb_kPa, Q(1000))
        q1 == SteamQuery(Ln(Pc), "x", Zero)
        st1 == SteamState(prov, q1)
        wp == RMul(st1.v, RSub(Pb_kPa, Pc_kPa))
        h2 == RAdd(st1.h, wp)
        q2 == SteamQuery(Ln(Pb), "h", h2)
        st2 == SteamState(prov, q2)
        q3 == IF T3_C = None THEN SteamQuery(Ln(Pb), "x", One)
              ELSE SteamQuery(Ln(Pb), "T", Kelvin(T3_C[2]))
        st3 == SteamState(prov, q3)
        q4 == SteamQuery(Ln(Pc), "s", st3.s)
        st4 == SteamState(prov, q4)
        wt == RSub(st3.h, st4.h)
        wnet == RSub(wt, wp)
        qin == RSub(st3.h, h2)
        bad == FirstFailure(prov, <<q1, q2, q3, q4>>)
    IN IF bad # 0 THEN FluidRaise(ProviderError, SubSeq(<<q1, q2, q3, q4>>, 1, bad))
       ELSE IF IsZero(qin) THEN FluidRaise(ZeroDivisionError, <<q1, q2, q3, q4>>)
       ELSE Dome(prov, Pc, Pb, NDomeRankine,
                 SteamTable(<<Pc_kPa, Pb_kPa, Pb_kPa, Pc_kPa>>, <<st1, st2, st3, st4>>,
                            <<st1.h, h2, st3.h, st4.h>>),
                 rankine_metrics(wp, wt, wnet, qin, RDiv(wnet, qin), safe_quality(st4)),
                 <<q1, q2, q3, q4>>)

-----------------------------------------------------------------------------
(* Rankine with reheat: src/cycles/rankine_reheat.py *)

NDomeReheat == 90

\* a check that never looks at the reheat pressure's place between the two
rankine_reheat_validate_ends(Pc_kPa, Pb_kPa, Pr_kPa) ==
  IF RLe(Pc_kPa, Zero) \/ RLe(Pb_kPa, Zero) \/ RLe(Pr_kPa, Zero)
  THEN "ValueError: Pressures must be > 0"
  ELSE IF ~RLt(Pc_kPa, Pb_kPa) THEN "ValueError: Need Pb > Pr > Pc"
  ELSE ""

rankine_reheat_validate(Pc_kPa, Pb_kPa, Pr_kPa) ==
  IF RLe(Pc_kPa, Zero) \/ RLe(Pb_kPa, Zero) \/ RLe(Pr_kPa, Zero)
  THEN "ValueError: Pressures must be > 0"
  ELSE IF ~(RLt(Pr_kPa, Pb_kPa) /\ RLt(Pc_kPa, Pr_kPa)) THEN "ValueError: Need Pb > Pr > Pc"
  ELSE ""

rankine_reheat_metrics(wp, wt_hp, wt_lp, wt, wnet, qin_boiler, qin_reheat, qin_total, eta, x6) ==
  [wp_kJ_per_kg |-> wp, wt_hp_kJ_per_kg |-> wt_hp, wt_lp_kJ_per_kg |-> wt_lp,
   wt_total_kJ_per_kg |-> wt, Wnet_kJ_per_kg |-> wnet,
   Qin_boiler_kJ_per_kg |-> qin_boiler, Qin_reheat_kJ_per_kg |-> qin_reheat,
   Qin_total_kJ_per_kg |-> qin_total, eta_th |-> eta, turbine_exit_quality_x6 |-> x6]

\* a solver that expands the low-pressure turbine from the entropy of state 3
rankine_reheat_ideal_s3(prov, Pc_kPa, Pb_kPa, Pr_kPa, T3_C, T5_C) ==
  IF rankine_reheat_validate(Pc_kPa, Pb_kPa, Pr_kPa) # ""
  THEN FluidRaise(rankine_reheat_validate(Pc_kPa, Pb_kPa, Pr_kPa), <<>>)
  ELSE
    LET Pc == RDiv(Pc_kPa, Q(1000))
        Pb == RDiv(Pb_kPa, Q(1000))
        Pr == RDiv(Pr_kPa, Q(1000))
        q1 == SteamQuery(Ln(Pc), "x", Zero)
        st1 == SteamState(prov, q1)
        wp == RMul(st1.v, RSub(Pb_kPa, Pc_kPa))
        h2 == RAdd(st1.h, wp)
        q2 == SteamQuery(Ln(Pb), "h", h2)
        st2 == SteamState(prov, q2)
        q3 == SteamQuery(Ln(Pb), "T", Kelvin(T3_C))
        st3 == SteamState(prov, q3)
        q4 == SteamQuery(Ln(Pr), "s", st3.s)
        st4 == SteamState(prov, q4)
        q5 == SteamQuery(Ln(Pr), "T", Kelvin(T5_C))
        st5 == SteamState(prov, q5)
        q6 == SteamQuery(Ln(Pc), "s", st3.s)
        st6 == SteamState(prov, q6)
        wt_hp == RSub(st3.h, st4.h)
        wt_lp == RSub(st5.h, st6.h)
        wt == RAdd(wt_hp, wt_lp)
        wnet == RSub(wt, wp)
        qin_boiler == RSub(st3.h, h2)
        qin_reheat == RSub(st5.h, st4.h)
        qin_total == RAdd(qin_boiler, qin_reheat)
        qs == <<q1, q2, q3, q4, q5, q6>>
        bad == FirstFailure(prov, qs)
    IN IF bad # 0 THEN FluidRaise(ProviderError, SubSeq(qs, 1, bad))
       ELSE IF IsZero(qin_total) THEN FluidRaise(ZeroDivisionError, qs)
       ELSE Dome(prov, Pc, Pb, NDomeReheat,
                 SteamTable(<<Pc_kPa, Pb_kPa, Pb_kPa, Pr_kPa, Pr_kPa, Pc_kPa>>,
                            <<st1, st2, st3, st4, st5, st6>>,
                            <<st1.h, h2, st3.h, st4.h, st5.h, st6.h>>),
                 rankine_reheat_metrics(wp, wt_hp, wt_lp, wt, wnet, qin_boiler,
                                        qin_reheat, qin_total, RDiv(wnet, qin_total),
                                        safe_quality(st6)),
                 qs)

rankine_reheat_ideal(prov, Pc_kPa, Pb_kPa, Pr_kPa, T3_C, T5_C) ==
  IF rankine_reheat_validate(Pc_kPa, Pb_kPa, Pr_kPa) # ""
  THEN FluidRaise(rankine_reheat_validate(Pc_kPa, Pb_kPa, Pr_kPa), <<>>)
  ELSE
    LET Pc == RDiv(Pc_kPa, Q(1000))
        Pb == RDiv(Pb_kPa, Q(1000))
        Pr == RDiv(Pr_kPa, Q(1000))
        q1 == SteamQuery(Ln(Pc), "x", Zero)
        st1 == SteamState(prov, q1)
        wp == RMul(st1.v, RSub(Pb_kPa, Pc_kPa))
        h2 == RAdd(st1.h, wp)
        q2 == SteamQuery(Ln(Pb), "h", h2)
        st2 == SteamState(prov, q2)
        q3 == SteamQuery(Ln(Pb), "T", Kelvin(T3_C))
        st3 == SteamState(prov, q3)
        q4 == SteamQuery(Ln(Pr), "s", st3.s)
        st4 == SteamState(prov, q4)
        q5 == SteamQuery(Ln(Pr), "T", Kelvin(T5_C))
        st5 == SteamState(prov, q5)
        q6 == SteamQuery(Ln(Pc), "s", st5.s)
        st6 == SteamState(prov, q6)
        wt_hp == RSub(st3.h, st4.h)
        wt_lp == RSub(st5.h, st6.h)
        wt == RAdd(wt_hp, wt_lp)
        wnet == RSub(wt, wp)
        qin_boiler == RSub(st3.h, h2)
        qin_reheat == RSub(st5.h, st4.h)
        qin_total == RAdd(qin_boiler, qin_reheat)
        qs == <<q1, q2, q3, q4, q5, q6>>
        bad == FirstFailure(prov, qs)
    IN IF bad # 0 THEN FluidRaise(ProviderError, SubSeq(qs, 1, bad))
       ELSE IF IsZero(qin_total) THEN FluidRaise(ZeroDivisionError, qs)
       ELSE Dome(prov, Pc, Pb, NDomeReheat,
                 SteamTable(<<Pc_kPa, Pb_kPa, Pb_kPa, Pr_kPa, Pr_kPa, Pc_kPa>>,
                            <<st1, st2, st3, st4, st5, st6>>,
                            <<st1.h, h2, st3.h, st4.h, st5.h, st6.h>>),
                 rankine_reheat_metrics(wp, wt_hp, wt_lp, wt, wnet, qin_boiler,
                                        qin_reheat, qin_total, RDiv(wnet, qin_total),
                                        safe_quality(st6)),
                 qs)

-----------------------------------------------------------------------------
(* Vapor-compression refrigeration: src/cycles/refrigeration_vcr.py *)

NSatVcr == 80

vcr_validate(Tevap_C, Tcond_C) ==
  IF RLe(Kelvin(Tcond_C), Kelvin(Tevap_C)) THEN "ValueError: Tcond must be > Tevap"
  ELSE ""

\* PropsSI(out, ...): the number it returns
Props(prov, q) == Value(prov, q, ByCode(q.out))

\* _try_quality(fluid, P_Pa, H_Jkg): None when the lookup fails or gives none
try_quality(prov, q) ==
  IF Fails(prov, q) \/ QualityValue(prov, q)[1] # "num" THEN None
  ELSE QualityValue(prov, q)

kPa(P) == RDiv(P, Q(1000))
kJ(H) == RDiv(H, Q(1000))
kJk(S) == RDiv(S, Q(1000))

vcr_metrics(fluid, Pe, Pc, w_comp, q_in, q_out, cop_r, Q4) ==
  [fluid |-> fluid, Pe_kPa |-> kPa(Pe), Pc_kPa |-> kPa(Pc),
   pressure_ratio |-> RDiv(Pc, Pe), w_comp_kJ_per_kg |-> w_comp,
   q_in_kJ_per_kg |-> q_in, q_out_kJ_per_kg |-> q_out, COP_R |-> cop_r,
   x4_quality |-> Q4]

\* the five lookups the saturation loop makes at temperature T, in order
SatLookups(T, fluid) ==
  <<PropsQuery("P", "T", T, "Q", Zero, fluid), PropsQuery("H", "T", T, "Q", Zero, fluid),
    PropsQuery("H", "T", T, "Q", One, fluid), PropsQuery("S", "T", T, "Q", Zero, fluid),
    PropsQuery("S", "T", T, "Q", One, fluid)>>
\* those of them it gets to: up to and including the first that fails
SatMade(prov, T, fluid) ==
  LET bad == FirstFailure(prov, SatLookups(T, fluid))
  IN IF bad = 0 THEN SatLookups(T, fluid) ELSE SubSeq(SatLookups(T, fluid), 1, bad)
\* lookup j at T succeeded, so that its list was appended to
SatAppended(prov, T, fluid, j) ==
  FirstFailure(prov, SatLookups(T, fluid)) \notin 1..j

RECURSIVE SatColumn(_, _, _, _, _, _)
\* the list of lookup j after the loop over Tline[k..]: Pline, hf, hg, sf, sg
SatColumn(prov, Te, Tc, fluid, j, k) ==
  IF k = NSatVcr THEN <<>>
  ELSE LET T == Linspace(Te, Tc, NSatVcr, k)
       IN (IF SatAppended(prov, T, fluid, j)
           THEN <<kJ(Props(prov, SatLookups(T, fluid)[j]))>> ELSE <<>>)
            \o SatColumn(prov, Te, Tc, fluid, j, k + 1)

RECURSIVE SatLog(_, _, _, _, _)
SatLog(prov, Te, Tc, fluid, k) ==
  IF k = NSatVcr THEN <<>>
  ELSE SatMade(prov, Linspace(Te, Tc, NSatVcr, k), fluid)
         \o SatLog(prov, Te, Tc, fluid, k + 1)

\* pd.DataFrame({"T_K": Tline[:len(Pline)], "P_kPa": Pline, ...}): the rows pair
\* the entries of the lists by position
sat_df_of(Te, Tc, Pline, hf, hg, sf, sg) ==
  DataFrame({"T_K", "P_kPa", "h_f", "h_g", "s_f", "s_g"},
            [r \in 1..Len(Pline) |->
               [T_K |-> Linspace(Te, Tc, NSatVcr, r - 1), P_kPa |-> Pline[r],
                h_f |-> hf[r], h_g |-> hg[r], s_f |-> sf[r], s_g |-> sg[r]]])

\* the first lookup of qs, the quality lookups (tries) apart, that fails
FirstFailureOutside(prov, qs, tries) ==
  IF \E j \in (1..Len(qs)) \ tries : Fails(prov, qs[j])
  THEN CHOOSE j \in (1..Len(qs)) \ tries :
         Fails(prov, qs[j]) /\ \A i \in (1..(j - 1)) \ tries : ~Fails(prov, qs[i])
  ELSE 0

\* the saturation loop and the table built from its lists, after the lookups
\* in log
vcr_saturation(prov, Te, Tc, fluid, states, m, log) ==
  LET Pline == SatColumn(prov, Te, Tc, fluid, 1, 0)
      hf == SatColumn(prov, Te, Tc, fluid, 2, 0)
      hg == SatColumn(prov, Te, Tc, fluid, 3, 0)
      sf == SatColumn(prov, Te, Tc, fluid, 4, 0)
      sg == SatColumn(prov, Te, Tc, fluid, 5, 0)
      all == log \o SatLog(prov, Te, Tc, fluid, 0)
  IN IF {Len(hf), Len(hg), Len(sf), Len(sg)} # {Len(Pline)}
     THEN FluidRaise("ValueError: All arrays must be of the same length", all)
     ELSE FluidReturn(states, m, sat_df_of(Te, Tc, Pline, hf, hg, sf, sg), all)

vcr_ideal(prov, fluid, Tevap_C, Tcond_C, superheat_C, subcool_C) ==
  IF vcr_validate(Tevap_C, Tcond_C) # ""
  THEN FluidRaise(vcr_validate(Tevap_C, Tcond_C), <<>>)
  ELSE
    LET Te == Kelvin(Tevap_C)
        Tc == Kelvin(Tcond_C)
        qPe == PropsQuery("P", "T", Te, "Q", One, fluid)
        qPc == PropsQuery("P", "T", Tc, "Q", Zero, fluid)
        Pe == Props(prov, qPe)
        Pc == Props(prov, qPc)
        T1 == RAdd(Te, superheat_C)
        qH1 == PropsQuery("H", "P", Pe, "T", T1, fluid)
        qS1 == PropsQuery("S", "P", Pe, "T", T1, fluid)
        qV1 == PropsQuery("V", "P", Pe, "T", T1, fluid)
        H1 == Props(prov, qH1)
        S1 == Props(prov, qS1)
        qQ1 == PropsQuery("Q", "P", Pe, "H", H1, fluid)
        qH2 == PropsQuery("H", "P", Pc, "S", S1, fluid)
        H2 == Props(prov, qH2)
        qT2 == PropsQuery("T", "P", Pc, "H", H2, fluid)
        qS2 == PropsQuery("S", "P", Pc, "H", H2, fluid)
        qV2 == PropsQuery("V", "P", Pc, "H", H2, fluid)
        qQ2 == PropsQuery("Q", "P", Pc, "H", H2, fluid)
        T3 == RSub(Tc, subcool_C)
        qH3 == PropsQuery("H", "P", Pc, "T", T3, fluid)
        qS3 == PropsQuery("S", "P", Pc, "T", T3, fluid)
        qV3 == PropsQuery("V", "P", Pc, "T", T3, fluid)
        H3 == Props(prov, qH3)
        qQ3 == PropsQuery("Q", "P", Pc, "H", H3, fluid)
        H4 == H3
        qT4 == PropsQuery("T", "P", Pe, "H", H4, fluid)
        qS4 == PropsQuery("S", "P", Pe, "H", H4, fluid)
        qV4 == PropsQuery("V", "P", Pe, "H", H4, fluid)
        qQ4 == PropsQuery("Q", "P", Pe, "H", H4, fluid)
        qs == <<qPe, qPc, qH1, qS1, qV1, qQ1, qH2, qT2, qS2, qV2, qQ2,
                qH3, qS3, qV3, qQ3, qT4, qS4, qV4, qQ4>>
        bad == FirstFailureOutside(prov, qs, {6, 11, 15, 19})
        states ==
          DataFrame({"State", "P_kPa", "T_K", "h_kJ_per_kg", "s_kJ_per_kgK",
                     "v_m3_per_kg", "x_quality"},
                    <<[State |-> 1, P_kPa |-> kPa(Pe), T_K |-> T1, h_kJ_per_kg |-> kJ(H1),
                       s_kJ_per_kgK |-> kJk(S1), v_m3_per_kg |-> Props(prov, qV1),
                       x_quality |-> try_quality(prov, qQ1)],
                      [State |-> 2, P_kPa |-> kPa(Pc), T_K |-> Props(prov, qT2),
                       h_kJ_per_kg |-> kJ(H2), s_kJ_per_kgK |-> kJk(Props(prov, qS2)),
                       v_m3_per_kg |-> Props(prov, qV2),
                       x_quality |-> try_quality(prov, qQ2)],
                      [State |-> 3, P_kPa |-> kPa(Pc), T_K |-> T3, h_kJ_per_kg |-> kJ(H3),
                       s_kJ_per_kgK |-> kJk(Props(prov, qS3)),
                       v_m3_per_kg |-> Props(prov, qV3),
                       x_quality |-> try_quality(prov, qQ3)],
                      [State |-> 4, P_kPa |-> kPa(Pe), T_K |-> Props(prov, qT4),
                       h_kJ_per_kg |-> kJ(H4), s_kJ_per_kgK |-> kJk(Props(prov, qS4)),
                       v_m3_per_kg |-> Props(prov, qV4),
                       x_quality |-> try_quality(prov, qQ4)]>>)
        w_comp == kJ(RSub(H2, H1))
        q_in == kJ(RSub(H1, H4))
        q_out == kJ(RSub(H2, H3))
    IN IF bad # 0 THEN FluidRaise(ProviderError, SubSeq(qs, 1, bad))
       ELSE IF IsZero(w_comp) THEN FluidRaise(ZeroDivisionError, qs)
       ELSE vcr_saturation(prov, Te, Tc, fluid, states,
                           vcr_metrics(fluid, Pe, Pc, w_comp, q_in, q_out,
                                       RDiv(q_in, w_comp), try_quality(prov, qQ4)),
                           qs)

-----------------------------------------------------------------------------
(* Inputs of the air-standard solvers *)

MaxT == 3
MaxP == 2
MaxRatio == 4
MaxVol == 2

\* temperatures: small ones, and the 300 K and 600 K of the documented example
Temps == {Q(n) : n \in 0..MaxT} \cup {Q(300), Q(600)}
Pressures == {Q(n) : n \in 0..MaxP}
Ratios == {Q(n) : n \in 0..MaxRatio} \cup {Frac(3, 2)}
Gammas == {One, Frac(3, 2), Q(2)}
GasConstants == {Zero, One, Q(2)}
HeatCapacities == {One, Q(2)}
Volumes == {Q(n) : n \in 0..MaxVol}
DeltaS == {Ln(Frac(1, 2)), EZero, Ln(Q(2)), Ln(Q(4))}
Modes == {"engine", "refrigerator", "heat_pump", "turbine"}

\* every power the call takes is rational
PowsExact(x, gamma) == HasPow(x, RSub(gamma, One)) /\ HasPow(x, gamma)

OttoCalls ==
  {c \in [fn : {"otto_cycle"}, T1_K : Temps, P1_kPa : Pressures, r : Ratios,
          T3_K : Temps, gamma : Gammas, R_kJkgK : GasConstants] :
     RLe(c.r, One) \/ PowsExact(c.r, c.gamma)}

DieselCalls ==
  {c \in [fn : {"diesel_cycle"}, T1_K : Temps, P1_kPa : Pressures, r : Ratios,
          rc : Ratios, gamma : Gammas, R_kJkgK : GasConstants] :
     \/ RLe(c.r, One)
     \/ PowsExact(c.r, c.gamma) /\ PowsExact(RDiv(c.rc, c.r), c.gamma)}

DualCalls ==
  {c \in [fn : {"dual_cycle"}, T1_K : Temps, P1_kPa : Pressures, r : Ratios,
          alpha : Ratios, rc : Ratios, gamma : Gammas, R_kJkgK : {One, Q(2)}] :
     \/ RLe(c.r, One)
     \/ PowsExact(c.r, c.gamma) /\ PowsExact(RDiv(c.rc, c.r), c.gamma)}

BraytonCalls ==
  {c \in [fn : {"brayton_ideal"}, P1_kPa : Pressures, T1_K : Temps, rp : Ratios,
          T3_K : Temps, gamma : Gammas, cp_kJkgK : HeatCapacities,
          R_kJkgK : GasConstants] :
     \/ RLe(c.rp, One)
     \/ LET exp == RDiv(RSub(c.gamma, One), c.gamma)
        IN HasPow(c.rp, exp) /\ HasPow(RDiv(One, c.rp), exp)}

CarnotCalls ==
  {c \in [fn : {"carnot_cycle"}, Th_K : Temps, Tc_K : Temps, delta_s_kJkgK : DeltaS,
          mode : Modes, gamma : Gammas, R_kJkgK : GasConstants, v1 : Volumes] :
     \/ RLe(c.Th_K, c.Tc_K) \/ ELeZero(c.delta_s_kJkgK)
     \/ IsZero(c.R_kJkgK) \/ c.gamma = One \/ IsZero(c.Tc_K)
     \/ /\ HasExp(EScale(RDiv(One, c.R_kJkgK), c.delta_s_kJkgK))
        /\ HasPow(RDiv(c.Th_K, c.Tc_K), RDiv(One, RSub(c.gamma, One)))}

AirFns == {"carnot_cycle", "brayton_ideal", "otto_cycle", "diesel_cycle", "dual_cycle"}
AirCalls == OttoCalls \cup DieselCalls \cup DualCalls \cup BraytonCalls \cup CarnotCalls

-----------------------------------------------------------------------------
(* The state machine: one invocation, from the call to its return or raise *)

NoPrev == [fn |-> "none"]
NoQueries == <<>>
NoneRunning == <<>>

Idle(c) ==
  /\ pc = "idle" /\ call = c
  /\ metrics = NoMetrics /\ sat_df = NoTable /\ path = NoTable
  /\ err = "" /\ queries = NoQueries /\ prev = NoPrev /\ running = NoneRunning

\* a solver call ends: it raised e, or returned its tables and metrics
Finish(res) ==
  /\ pc' = IF res.err = "" THEN "returned" ELSE "raised"
  /\ err' = res.err
  /\ states_df' = res.states
  /\ metrics' = res.metrics
  /\ UNCHANGED <<call, sat_df, path, queries, prev, provider, running>>

OttoCall ==
  /\ pc = "idle" /\ call.fn = "otto_cycle"
  /\ Finish(otto_cycle(call.T1_K, call.P1_kPa, call.r, call.T3_K, call.gamma,
                       call.R_kJkgK))

DieselCall ==
  /\ pc = "idle" /\ call.fn = "diesel_cycle"
  /\ Finish(diesel_cycle(call.T1_K, call.P1_kPa, call.r, call.rc, call.gamma,
                         call.R_kJkgK))

DualCall ==
  /\ pc = "idle" /\ call.fn = "dual_cycle"
  /\ Finish(dual_cycle(call.T1_K, call.P1_kPa, call.r, call.alpha, call.rc,
                       call.gamma, call.R_kJkgK))

BraytonCall ==
  /\ pc = "idle" /\ call.fn = "brayton_ideal"
  /\ Finish(brayton_ideal(call.P1_kPa, call.T1_K, call.rp, call.T3_K, call.gamma,
                          call.cp_kJkgK, call.R_kJkgK))

CarnotCall ==
  /\ pc = "idle" /\ call.fn = "carnot_cycle"
  /\ Finish(carnot_cycle(call.Th_K, call.Tc_K, call.delta_s_kJkgK, call.mode,
                         call.gamma, call.R_kJkgK, call.v1))

InitAir == \E c \in AirCalls : Idle(c) /\ states_df = NoTable /\ provider = NoProvider
NextAir == OttoCall \/ DieselCall \/ DualCall \/ BraytonCall \/ CarnotCall
SpecAir == InitAir /\ [][NextAir]_vars

-----------------------------------------------------------------------------
(* Two Carnot calls one after the other: the first call's inputs and result *)
(* are kept in prev while the second runs, so that the two results can be   *)
(* compared.                                                                *)

PairTemps == {Q(2), Q(3), Q(300), Q(600)}
PairCalls ==
  {c \in [fn : {"carnot_cycle"}, Th_K : PairTemps, Tc_K : PairTemps,
          delta_s_kJkgK : {Ln(Q(2)), Ln(Q(4))}, mode : {"engine", "refrigerator"},
          gamma : {Frac(3, 2), Q(2)}, R_kJkgK : {One, Q(2)}, v1 : {One, Q(2)}] :
     \/ RLe(c.Th_K, c.Tc_K)
     \/ HasExp(EScale(RDiv(One, c.R_kJkgK), c.delta_s_kJkgK))}

\* the caller keeps the result of the call that ended and calls again
CallAgain ==
  /\ pc \in {"returned", "raised"} /\ prev = NoPrev
  /\ prev' = [fn |-> call.fn, call |-> call, pc |-> pc, err |-> err,
              states_df |-> states_df, metrics |-> metrics]
  /\ \E c \in PairCalls : call' = c
  /\ pc' = "idle" /\ err' = "" /\ states_df' = NoTable /\ metrics' = NoMetrics
  /\ UNCHANGED <<sat_df, path, queries, provider, running>>

InitCarnotPair ==
  \E c \in PairCalls : Idle(c) /\ states_df = NoTable /\ provider = NoProvider
NextCarnotPair == CarnotCall \/ CallAgain
SpecCarnotPair == InitCarnotPair /\ [][NextCarnotPair]_vars

-----------------------------------------------------------------------------
(* The real-fluid solvers: their inputs, the providers they meet, and one   *)
(* action per solver                                                        *)

MaxSeed == 2

SteamPressures == {Q(n) : n \in -1..(MaxP + 1)}
RankineCalls ==
  [fn : {"rankine_ideal"}, Pc_kPa : SteamPressures, Pb_kPa : SteamPressures,
   T3_C : {None, Num(One)}]
ReheatCalls ==
  [fn : {"rankine_reheat_ideal"}, Pc_kPa : SteamPressures, Pb_kPa : SteamPressures,
   Pr_kPa : SteamPressures, T3_C : {One}, T5_C : {One, Q(2)}]
VcrCalls ==
  [fn : {"vcr_ideal"}, fluid : {"R134a"}, Tevap_C : {Zero, One},
   Tcond_C : {Zero, One, Q(2)}, superheat_C : {Zero, One}, subcool_C : {Zero}]
FluidCalls == RankineCalls \cup ReheatCalls \cup VcrCalls
FluidFns == {"rankine_ideal", "rankine_reheat_ideal", "vcr_ideal"}

\* the kinds of query a solver makes
QueryKinds(c) ==
  IF c.fn = "vcr_ideal"
  THEN {<<"P", "T", "Q">>, <<"H", "P", "T">>, <<"Q", "P", "H">>, <<"S", "P", "H">>,
        <<"H", "T", "Q">>, <<"S", "T", "Q">>}
  ELSE {<<"state", "P", by>> : by \in {"x", "h", "T", "s"}}

\* single queries of the call's saturation loop: the lookups at the second
\* point of the dome, or at the second temperature and the last
LoopQueries(c) ==
  CASE c.fn = "vcr_ideal" ->
         IF vcr_validate(c.Tevap_C, c.Tcond_C) # "" THEN {}
         ELSE {SatLookups(Linspace(Kelvin(c.Tevap_C), Kelvin(c.Tcond_C), NSatVcr, k),
                          c.fluid)[j] : k \in {1, NSatVcr - 1}, j \in {1, 3, 5}}
    [] c.fn = "rankine_ideal" ->
         IF rankine_validate(c.Pc_kPa, c.Pb_kPa) # "" THEN {}
         ELSE {DomeQueries(kPa(c.Pc_kPa), kPa(c.Pb_kPa), NDomeRankine)[4]}
    [] c.fn = "rankine_reheat_ideal" ->
         IF rankine_reheat_validate(c.Pc_kPa, c.Pb_kPa, c.Pr_kPa) # "" THEN {}
         ELSE {DomeQueries(kPa(c.Pc_kPa), kPa(c.Pb_kPa), NDomeReheat)[4]}

\* a provider that fails on nothing, on one kind of query, or on one query
Providers(c) ==
  {[seed |-> sd, kinds |-> ks, lookups |-> {}] :
     sd \in 0..MaxSeed, ks \in {{}} \cup {{k} : k \in QueryKinds(c)}}
    \cup {[seed |-> sd, kinds |-> {}, lookups |-> {q}] :
            sd \in 0..MaxSeed, q \in LoopQueries(c)}

\* a real-fluid call ends: it raised, or returned its three tables
FluidFinish(res) ==
  /\ pc' = IF res.err = "" THEN "returned" ELSE "raised"
  /\ err' = res.err
  /\ states_df' = res.states
  /\ metrics' = res.metrics
  /\ sat_df' = res.sat
  /\ queries' = res.log
  /\ UNCHANGED <<call, path, prev, provider, running>>

RankineCall ==
  /\ pc = "idle" /\ call.fn = "rankine_ideal"
  /\ FluidFinish(rankine_ideal(provider, call.Pc_kPa, call.Pb_kPa, call.T3_C))

ReheatCall ==
  /\ pc = "idle" /\ call.fn = "rankine_reheat_ideal"
  /\ FluidFinish(rankine_reheat_ideal(provider, call.Pc_kPa, call.Pb_kPa, call.Pr_kPa,
                                      call.T3_C, call.T5_C))

VcrCall ==
  /\ pc = "idle" /\ call.fn = "vcr_ideal"
  /\ FluidFinish(vcr_ideal(provider, call.fluid, call.Tevap_C, call.Tcond_C,
                           call.superheat_C, call.subcool_C))

InitFluid ==
  \E c \in FluidCalls : \E pr \in Providers(c) :
    Idle(c) /\ states_df = NoTable /\ provider = pr
NextFluid == RankineCall \/ ReheatCall \/ VcrCall
SpecFluid == InitFluid /\ [][NextFluid]_vars

-----------------------------------------------------------------------------
(* Inputs of the path sampler: a states table, a leg list, gamma and R.     *)
(* Two families: every leg list up to MaxLegs legs over a few three-state   *)
(* tables, and every start state over one-leg lists.                        *)

MaxLegs == 2
MaxVal == 2

\* the kinds a caller may write: the four the sampler knows and one it does not
AnyKinds == LegKinds \cup {"poly"}
EntropyColumns == {"s_kJ_per_kgK", "s_rel_kJ_per_kgK", "None"}
PathGammas == {Q(2), Q(3)}
PathGasConstants == {One, Q(2)}

\* one row of a states table; sname = "None": a table with no entropy column
StateRow(k, P, v, T, s, sname) ==
  [c \in {"State", "P_kPa", "T_K", "v_m3_per_kg"} \cup ({sname} \ {"None"}) |->
     CASE c = "State" -> k
       [] c = "P_kPa" -> P
       [] c = "T_K" -> T
       [] c = "v_m3_per_kg" -> v
       [] OTHER -> s]

Table(rows) == DataFrame(DOMAIN rows[1], rows)

\* three states of an ideal gas with R = 1
CycleTable(lab, sname) ==
  Table(<<StateRow(lab[1], Frac(1, 2), Q(2), One, EZero, sname),
          StateRow(lab[2], Q(2), One, Q(2), Ln(Q(2)), sname),
          StateRow(lab[3], Q(3), One, Q(3), ERat(One), sname)>>)

\* the table with the enthalpy and quality columns of a real-fluid solver added
WithFluidColumns(df) ==
  DataFrame(df.columns \cup {"h_kJ_per_kg", "x_quality"},
            [k \in 1..NRows(df) |->
               [c \in df.columns \cup {"h_kJ_per_kg", "x_quality"} |->
                  CASE c = "h_kJ_per_kg" -> Q(k)
                    [] c = "x_quality" -> None
                    [] OTHER -> df.rows[k][c]]])

\* the table labelled in row order under each entropy column, once with the
\* labels out of row order, and once with enthalpy and quality columns
CycleTables ==
  {CycleTable(<<1, 2, 3>>, sname) : sname \in EntropyColumns}
    \cup {CycleTable(<<3, 1, 2>>, "s_kJ_per_kgK")}
    \cup {WithFluidColumns(CycleTable(<<1, 2, 3>>, "s_rel_kJ_per_kgK"))}

\* leg m of n: the legs go round the three states (chain), or are all 1 -> 2
\* (same), or go round with the last one ending on 9, a label no table holds
LegAt(kind, m, n, topo) ==
  CASE topo = "chain" -> <<kind, ((m - 1) % 3) + 1, (m % 3) + 1>>
    [] topo = "same" -> <<kind, 1, 2>>
    [] topo = "absent" ->
         <<kind, ((m - 1) % 3) + 1, IF m = n THEN 9 ELSE (m % 3) + 1>>
KindLists == UNION {[1..n -> AnyKinds] : n \in 0..MaxLegs}
LegLists ==
  {[m \in 1..Len(kinds) |-> LegAt(kinds[m], m, Len(kinds), topo)] :
     kinds \in KindLists, topo \in {"chain", "same", "absent"}}

PathCall(legs, gamma, R) ==
  [fn |-> "smooth_path_ideal", legs |-> legs, gamma |-> gamma, R |-> R]

LegsFamily ==
  {[df |-> t, call |-> PathCall(legs, Q(2), One)] : t \in CycleTables, legs \in LegLists}

\* a start state of any pressure, volume and temperature, one leg from it
StartTables ==
  {Table(<<StateRow(1, Q(P), Q(v), Q(T), s, sname),
           StateRow(2, One, Q(3), Q(3), EZero, sname)>>) :
     P \in 1..MaxVal, v \in 1..MaxVal, T \in 1..MaxVal, s \in {EZero, Ln(Q(2))},
     sname \in {"s_rel_kJ_per_kgK", "None"}}

StartFamily ==
  {[df |-> t, call |-> PathCall(<<<<kind, 1, 2>>>>, gamma, R)] :
     t \in StartTables, kind \in LegKinds, gamma \in PathGammas, R \in PathGasConstants}

PathInputs == LegsFamily \cup StartFamily

\* the call: the path or the exception; the states table is the caller's and
\* is left as it was
SmoothPathCall ==
  /\ pc = "idle" /\ call.fn = "smooth_path_ideal"
  /\ LET res == smooth_path_ideal(states_df, call.legs, call.gamma, call.R)
     IN /\ pc' = IF res.err = "" THEN "returned" ELSE "raised"
        /\ err' = res.err
        /\ path' = res.df
  /\ UNCHANGED <<call, states_df, metrics, sat_df, queries, prev, provider, running>>

InitPath ==
  \E in \in PathInputs : Idle(in.call) /\ states_df = in.df /\ provider = NoProvider
NextPath == SmoothPathCall
SpecPath == InitPath /\ [][NextPath]_vars

-----------------------------------------------------------------------------
(* Concurrent invocations of the path sampler: two threads call             *)
(* smooth_path_ideal with the same states table (the one DataFrame object   *)
(* of their caller) and their own legs. An invocation advances one turn at  *)
(* a time: the choice of the entropy column, one turn of the for loop per   *)
(* leg, then the concatenation and the return.                              *)

Threads == {"a", "b"}

\* an invocation that has been called and has run no statement yet
Called(legs, gamma, R) ==
  [pc |-> "called", legs |-> legs, gamma |-> gamma, R |-> R, scol |-> "None",
   idx |-> 1, out |-> <<>>, err |-> "", path |-> NoTable]

\* a rename that renames the caller's states table to the library's column
\* name instead of the output to the caller's
RenamedInPlace(cat, states, sc) ==
  [path |-> cat, states |-> Rename(states, sc, "s_kJ_per_kgK")]

\* df = df.rename(columns={"s_kJ_per_kgK": scol}): a new table for the output;
\* the states table stays as it is
Renamed(cat, states, sc) ==
  [path |-> Rename(cat, "s_kJ_per_kgK", sc), states |-> states]

\* scol = ... : the entropy column is chosen once, before the loop
StartTurn(t) ==
  /\ running[t].pc = "called"
  /\ running' = [running EXCEPT ![t].pc = "looping", ![t].scol = scol(states_df)]
  /\ UNCHANGED <<pc, call, states_df, metrics, sat_df, path, err, queries, prev, provider>>

\* one turn of the for loop: the rows of the leg's two labels are read from the
\* table as it is now, and the leg's samples are appended or the turn raises
LegTurn(t) ==
  LET r == running[t]
      leg == r.legs[r.idx]
      e == LegError(states_df, leg, r.gamma, r.R)
  IN /\ r.pc = "looping" /\ r.idx <= Len(r.legs)
     /\ running' =
          [running EXCEPT ![t] =
             IF e # "" THEN [r EXCEPT !.pc = "raised", !.err = e, !.out = <<>>]
             ELSE [r EXCEPT !.idx = r.idx + 1,
                            !.out = Append(r.out, Kept(Segment(states_df, leg, r.gamma, r.R),
                                                       r.idx))]]
     /\ UNCHANGED <<pc, call, states_df, metrics, sat_df, path, err, queries, prev, provider>>

\* after the loop: pd.concat, the rename of the entropy column, the return
ReturnTurn(t) ==
  LET r == running[t]
      cat == DataFrame(PathColumns, Concat(r.out))
      ren == Renamed(cat, states_df, r.scol)
  IN /\ r.pc = "looping" /\ r.idx > Len(r.legs)
     /\ IF r.out = <<>>
        THEN /\ running' = [running EXCEPT ![t].pc = "raised",
                                           ![t].err = "ValueError: No objects to concatenate"]
             /\ UNCHANGED states_df
        ELSE IF r.scol # "None" /\ r.scol # "s_kJ_per_kgK"
        THEN /\ running' = [running EXCEPT ![t].pc = "returned", ![t].path = ren.path]
             /\ states_df' = ren.states
        ELSE /\ running' = [running EXCEPT ![t].pc = "returned", ![t].path = cat]
             /\ UNCHANGED states_df
     /\ UNCHANGED <<pc, call, metrics, sat_df, path, err, queries, prev, provider>>

\* the leg lists of the two callers: two legs round the table, one leg, a list
\* ending on a label the table does not hold, a kind the sampler does not
\* know, and no leg at all
ConcurrentLegs ==
  {<<<<"isen", 1, 2>>, <<"cv", 2, 3>>>>, <<<<"cp", 1, 2>>>>,
   <<<<"isoth", 1, 2>>, <<"isen", 2, 9>>>>, <<<<"poly", 1, 2>>>>, <<>>}

\* the two invocations share the table they were passed
ConcurrentCall(df) == [fn |-> "smooth_path_ideal, twice", states_df |-> df]

InitConcurrent ==
  \E t \in CycleTables : \E la \in ConcurrentLegs : \E lb \in ConcurrentLegs :
    /\ pc = "idle" /\ call = ConcurrentCall(t)
    /\ metrics = NoMetrics /\ sat_df = NoTable /\ path = NoTable
    /\ err = "" /\ queries = NoQueries /\ prev = NoPrev
    /\ states_df = t /\ provider = NoProvider
    /\ running = [th \in Threads |-> Called(IF th = "a" THEN la ELSE lb, Q(2), One)]
NextConcurrent == \E t \in Threads : StartTurn(t) \/ LegTurn(t) \/ ReturnTurn(t)
SpecConcurrent == InitConcurrent /\ [][NextConcurrent]_vars

-----------------------------------------------------------------------------
(* The dashboard's pages of the air-standard cycles: src/app.py. A page     *)
(* calls the cycle's solver with the sidebar's inputs, every other          *)
(* parameter at its default, and then the path sampler with the states the  *)
(* solver returned, the page's leg list, gamma and R = 0.287. The ranges of *)
(* the sidebar's widgets are not modelled: gamma is 2, where every sample   *)
(* of the sampler is rational, and the model does not run the sampler of    *)
(* the Carnot page, whose gamma is the literal 1.4.                         *)

\* R_kJkgK=0.287, the solvers' default and the sampler's argument
AirR == Frac(287, 1000)
\* cp_kJkgK=1.004, the default of brayton_ideal
AirCp == Frac(251, 250)
\* gamma=1.4, the default of carnot_cycle and the Carnot page's argument
AirGamma == Frac(7, 5)

\* the solver call of each page
PageCalls ==
  [fn : {"otto_cycle"}, T1_K : {Q(250), Q(500)}, P1_kPa : {Frac(287, 2), Q(287)},
   r : {Q(2), Q(4)}, T3_K : {Q(1000), Q(2000), Q(3000)}, gamma : {Q(2)},
   R_kJkgK : {AirR}]
  \cup
  [fn : {"brayton_ideal"}, P1_kPa : {Frac(287, 2), Q(287)}, T1_K : {Q(250), Q(500)},
   rp : {Q(4), Q(9)}, T3_K : {Q(1000), Q(2000)}, gamma : {Q(2)}, cp_kJkgK : {AirCp},
   R_kJkgK : {AirR}]
  \cup
  [fn : {"diesel_cycle"}, T1_K : {Q(250), Q(500)}, P1_kPa : {Frac(287, 2), Q(287)},
   r : {Q(2), Q(4)}, rc : {Q(2)}, gamma : {Q(2)}, R_kJkgK : {AirR}]
  \cup
  [fn : {"dual_cycle"}, T1_K : {Q(250), Q(500)}, P1_kPa : {Frac(287, 2), Q(287)},
   r : {Q(2), Q(4)}, alpha : {Q(2)}, rc : {Q(2)}, gamma : {Q(2)},
   R_kJkgK : {AirR}]
  \cup
  [fn : {"carnot_cycle"}, Th_K : {Q(1200)}, Tc_K : {Q(300)},
   delta_s_kJkgK : {EScale(AirR, Ln(Q(2)))}, mode : CarnotModes, gamma : {AirGamma},
   R_kJkgK : {AirR}, v1 : {One}]

\* legs = [...]: the leg list each page passes to the sampler
PageLegs(fn) ==
  CASE fn = "carnot_cycle" ->
         <<<<"isoth", 1, 2>>, <<"isen", 2, 3>>, <<"isoth", 3, 4>>, <<"isen", 4, 1>>>>
    [] fn = "brayton_ideal" ->
         <<<<"isen", 1, 2>>, <<"cv", 2, 3>>, <<"isen", 3, 4>>, <<"cv", 4, 1>>>>
    [] fn = "otto_cycle" ->
         <<<<"isen", 1, 2>>, <<"cv", 2, 3>>, <<"isen", 3, 4>>, <<"cv", 4, 1>>>>
    [] fn = "diesel_cycle" ->
         <<<<"isen", 1, 2>>, <<"cv", 2, 3>>, <<"isen", 3, 4>>, <<"cv", 4, 1>>>>
    [] fn = "dual_cycle" ->
         <<<<"isen", 1, 2>>, <<"cv", 2, 3>>, <<"isen", 3, 4>>, <<"cv", 4, 1>>>>

\* the gamma each page passes on: the literal 1.4 on the Carnot page, the
\* sidebar's gamma on the others
PageGamma(c) == IF c.fn = "carnot_cycle" THEN AirGamma ELSE c.gamma

\* path = smooth_path_ideal(states, legs, gamma=gamma, R=0.287): the page goes
\* on to the sampler once its solver has returned
PlotCall ==
  /\ pc = "returned" /\ call.fn \in AirFns /\ prev = NoPrev
  /\ prev' = [fn |-> call.fn, call |-> call, pc |-> pc, err |-> err,
              states_df |-> states_df, metrics |-> metrics]
  /\ call' = PathCall(PageLegs(call.fn), PageGamma(call), AirR)
  /\ pc' = "idle"
  /\ UNCHANGED <<states_df, metrics, sat_df, path, err, queries, provider, running>>

\* the sampler's run, where its samples are rational
PlotRun == call.gamma[2] = 1 /\ SmoothPathCall

InitApp ==
  \E c \in PageCalls : Idle(c) /\ states_df = NoTable /\ provider = NoProvider
NextApp ==
  OttoCall \/ DieselCall \/ DualCall \/ BraytonCall \/ CarnotCall \/ PlotCall \/ PlotRun
SpecApp == InitApp /\ [][NextApp]_vars

-----------------------------------------------------------------------------
(* The path sampler's claims, under SpecPath *)

Sampled == pc # "idle" /\ call.fn = "smooth_path_ideal"
Legs == call.legs
LabelsExist(leg) == HasRow(states_df, leg[2]) /\ HasRow(states_df, leg[3])
\* the samples the claim gives a leg of each kind
LegSamples(kind) == IF kind \in {"isen", "isoth"} THEN 90 ELSE 70
RECURSIVE SumSamples(_, _)
SumSamples(legs, n) ==
  IF n = 0 THEN 0 ELSE SumSamples(legs, n - 1) + LegSamples(legs[n][1])
\* the rows of the path before those of leg m
RowsBefore(m) == IF m = 1 THEN 0 ELSE SumSamples(Legs, m - 1) - (m - 2)
\* the entropy column of the path, under whatever name it left with
PathEntropy(r) ==
  IF "s_kJ_per_kgK" \in DOMAIN r THEN r["s_kJ_per_kgK"] ELSE r["s_rel_kJ_per_kgK"]
SameSample(r, q) ==
  /\ r["P_kPa"] = q["P_kPa"] /\ r["v_m3_per_kg"] = q["v_m3_per_kg"]
  /\ r["T_K"] = q["T_K"] /\ PathEntropy(r) = PathEntropy(q)

\* C1: a call whose N >= 1 legs are all of a known kind and name labels of the
\* table returns a path of (sum of the legs' sample counts) - (N - 1) rows, 90
\* samples for isen and isoth and 70 for cv and cp: the first leg's samples are
\* all there, and of every later leg all but its first.
C1_RowCount ==
  (/\ Sampled /\ Len(Legs) >= 1
   /\ \A m \in 1..Len(Legs) : Legs[m][1] \in LegKinds /\ LabelsExist(Legs[m]))
  => /\ pc = "returned"
     /\ NRows(path) = SumSamples(Legs, Len(Legs)) - (Len(Legs) - 1)
     /\ \A m \in 1..Len(Legs) :
          LET seg == Segment(states_df, Legs[m], call.gamma, call.R)
              skip == IF m = 1 THEN 0 ELSE 1
          IN \A k \in (1 + skip)..Len(seg) :
               SameSample(path.rows[RowsBefore(m) + k - skip], seg[k])

C1_Witness ==
  /\ Sampled /\ pc = "returned" /\ Len(Legs) = 2
  /\ Legs[1][1] = "isen" /\ Legs[2][1] = "cp"
  /\ NRows(path) = 159

FirstLeg == Legs[1]
StartState == row(states_df, FirstLeg[2])
FirstRow == path.rows[1]
\* the start State Point obeys P v = R T for the R the sampler was given
StartIsIdeal ==
  RMul(StartState["P_kPa"], StartState["v_m3_per_kg"]) = RMul(call.R, StartState["T_K"])
StartEntropy ==
  IF scol(states_df) = "None" THEN EZero ELSE StartState[scol(states_df)]

\* C2 as claimed: the first row of the path has the pressure, volume,
\* temperature and entropy of the start State Point of the first leg, whatever
\* the leg's kind, gamma and R.
C2_FirstRowIsStartState ==
  (Sampled /\ pc = "returned")
  => /\ FirstRow["P_kPa"] = StartState["P_kPa"]
     /\ FirstRow["v_m3_per_kg"] = StartState["v_m3_per_kg"]
     /\ FirstRow["T_K"] = StartState["T_K"]
     /\ PathEntropy(FirstRow) = StartEntropy

\* C2 amended: the first row has the temperature and the entropy of the start
\* State Point (entropy 0 for a table with no entropy column); it has its
\* pressure and its volume too exactly when the first leg is isentropic or the
\* State Point obeys P v = R T for the R passed: a cv or isoth leg keeps the
\* volume and recomputes the pressure as R T / v, a cp leg keeps the pressure
\* and recomputes the volume as R T / P.
C2_FirstRowAmended ==
  (Sampled /\ pc = "returned")
  => /\ FirstRow["T_K"] = StartState["T_K"]
     /\ PathEntropy(FirstRow) = StartEntropy
     /\ FirstLeg[1] \in {"isen", "cv", "isoth"}
          => FirstRow["v_m3_per_kg"] = StartState["v_m3_per_kg"]
     /\ FirstLeg[1] \in {"isen", "cp"} => FirstRow["P_kPa"] = StartState["P_kPa"]
     /\ FirstLeg[1] \in {"cv", "isoth"}
          => FirstRow["P_kPa"] =
               RDiv(RMul(call.R, StartState["T_K"]), StartState["v_m3_per_kg"])
     /\ FirstLeg[1] = "cp"
          => FirstRow["v_m3_per_kg"] =
               RDiv(RMul(call.R, StartState["T_K"]), StartState["P_kPa"])
     /\ (/\ FirstRow["P_kPa"] = StartState["P_kPa"]
         /\ FirstRow["v_m3_per_kg"] = StartState["v_m3_per_kg"])
          <=> (FirstLeg[1] = "isen" \/ StartIsIdeal)

C2_Witness ==
  /\ Sampled /\ pc = "returned" /\ FirstLeg[1] = "cv" /\ ~StartIsIdeal
  /\ FirstRow["P_kPa"] # StartState["P_kPa"]
  /\ FirstRow["T_K"] = StartState["T_K"]
  /\ ~EIsZero(StartEntropy)

\* the first leg of the list whose kind the sampler does not know
HasUnknown == \E m \in 1..Len(Legs) : Legs[m][1] \notin LegKinds
FirstUnknown == CHOOSE m \in 1..Len(Legs) :
  Legs[m][1] \notin LegKinds /\ \A q \in 1..(m - 1) : Legs[q][1] \in LegKinds

-----------------------------------------------------------------------------
(* The air-standard solvers' claims, under SpecAir *)

Solved(fn) == pc # "idle" /\ call.fn = fn

\* the inputs the claim calls degenerate
Degenerate ==
  CASE call.fn = "brayton_ideal" -> RLe(call.rp, One)
    [] call.fn = "otto_cycle" -> RLe(call.r, One) \/ RLe(call.T3_K, call.T1_K)
    [] call.fn = "diesel_cycle" -> RLe(call.r, One) \/ RLe(call.rc, One)
    [] call.fn = "dual_cycle" ->
         RLe(call.r, One) \/ RLe(call.alpha, One) \/ RLe(call.rc, One)
    [] call.fn = "carnot_cycle" ->
         RLe(call.Th_K, call.Tc_K) \/ ELeZero(call.delta_s_kJkgK)
    [] OTHER -> FALSE

\* the invalid-parameters errors of the air-standard solvers
InvalidParameters ==
  {"ValueError: Pressure ratio rp must be > 1",
   "ValueError: Compression ratio r must be > 1",
   "ValueError: T3 must be > T1",
   "ValueError: Cutoff ratio rc must be > 1",
   "ValueError: alpha (P3/P2) must be > 1",
   "ValueError: rc (v4/v3) must be > 1",
   "ValueError: Th must be > Tc for Carnot cycle.",
   "ValueError: ds must be > 0"}

\* C4: an air-standard solver called with a degenerate input (brayton rp <= 1;
\* otto r <= 1 or T3 <= T1; diesel r <= 1 or rc <= 1; dual r <= 1 or alpha <= 1
\* or rc <= 1; carnot Th <= Tc or delta_s <= 0) raises an invalid-parameters
\* error, whatever its other inputs are, and returns neither states nor metrics.
C4_DegenerateRejected ==
  (pc # "idle" /\ call.fn \in AirFns /\ Degenerate)
  => /\ pc = "raised" /\ err \in InvalidParameters
     /\ states_df = NoTable /\ metrics = NoMetrics

\* a degenerate pressure ratio of exactly 1 with inputs that would divide by 0
C4_Witness ==
  /\ Solved("brayton_ideal") /\ call.rp = One /\ IsZero(call.P1_kPa)
  /\ pc = "raised" /\ err = "ValueError: Pressure ratio rp must be > 1"
  /\ states_df = NoTable /\ metrics = NoMetrics

\* the call passes the solver's own validation
Accepted ==
  CASE call.fn = "brayton_ideal" -> brayton_validate(call.rp) = ""
    [] call.fn = "otto_cycle" -> otto_validate(call.T1_K, call.r, call.T3_K) = ""
    [] call.fn = "diesel_cycle" -> diesel_validate(call.r, call.rc) = ""
    [] call.fn = "dual_cycle" -> dual_validate(call.r, call.alpha, call.rc) = ""
    [] call.fn = "carnot_cycle" ->
         /\ carnot_validate(call.Th_K, call.Tc_K, call.delta_s_kJkgK) = ""
         /\ call.mode \in CarnotModes
    [] OTHER -> FALSE

\* positive temperatures, pressure, volume and gas constant, and gamma > 1
PositiveGas ==
  /\ RLt(One, call.gamma) /\ RPos(call.R_kJkgK)
  /\ IF call.fn = "carnot_cycle"
     THEN RPos(call.Tc_K) /\ RPos(call.v1)
     ELSE RPos(call.T1_K) /\ RPos(call.P1_kPa)
  /\ call.fn \in {"otto_cycle", "brayton_ideal"} => RPos(call.T3_K)

HeatInput ==
  IF call.fn = "carnot_cycle" THEN metrics["Q_in_kJ_per_kg"] ELSE ERat(metrics["Qin_kJ_per_kg"])

\* C6 as claimed: every call an air-standard solver's validation accepts (of a
\* gas with positive temperatures, pressure and gas constant and gamma > 1)
\* returns, with 0 < eta_th < 1 and a heat input > 0 for an engine, and with a
\* COP > 0 for the Carnot refrigerator and heat pump.
C6_EfficiencyInRange ==
  (pc # "idle" /\ call.fn \in AirFns /\ Accepted /\ PositiveGas)
  => /\ pc = "returned"
     /\ "eta_th" \in DOMAIN metrics
          => /\ RPos(metrics["eta_th"]) /\ RLt(metrics["eta_th"], One)
             /\ EPos(HeatInput)
     /\ "COP_R" \in DOMAIN metrics => RPos(metrics["COP_R"])
     /\ "COP_HP" \in DOMAIN metrics => RPos(metrics["COP_HP"])

\* r^(gamma - 1), the temperature ratio of the compression
OttoTemperatureRatio == Pow(call.r, RSub(call.gamma, One))

\* C7 as claimed: every otto_cycle call with r > 1 and T3 > T1 (of a gas with
\* positive T1, P1 and R and gamma > 1) returns eta_th = 1 - r^(1 - gamma),
\* also when T3 is at or below T2 = T1 * r^(gamma - 1).
C7_OttoEfficiency ==
  (Solved("otto_cycle") /\ Accepted /\ PositiveGas)
  => /\ pc = "returned"
     /\ metrics["eta_th"] = RSub(One, RDiv(One, OttoTemperatureRatio))

\* the heats of the Carnot cycle, from its inputs: T * delta_s
CarnotQh == EScale(call.Th_K, call.delta_s_kJkgK)
CarnotQc == EScale(call.Tc_K, call.delta_s_kJkgK)
StateT(k) == row(states_df, k)["T_K"]

\* C8: the metrics an air-standard solver returns balance: W_net = Q_in - Q_out
\* for Otto, Diesel, Dual and the Carnot engine (W_in = Q_hot - Q_cold for the
\* Carnot refrigerator and heat pump, with the heat the mode does not report
\* taken as T * delta_s); for Brayton W_net = Wt - Wc = Qin - cp * (T4 - T1),
\* T1 and T4 being those of the states table.
C8_EnergyBalance ==
  (pc = "returned" /\ call.fn \in AirFns)
  => CASE call.fn \in {"otto_cycle", "diesel_cycle", "dual_cycle"} ->
            metrics["Wnet_kJ_per_kg"] =
              RSub(metrics["Qin_kJ_per_kg"], metrics["Qout_kJ_per_kg"])
       [] call.fn = "brayton_ideal" ->
            /\ metrics["Wnet_kJ_per_kg"] =
                 RSub(metrics["Wt_kJ_per_kg"], metrics["Wc_kJ_per_kg"])
            /\ metrics["Wnet_kJ_per_kg"] =
                 RSub(metrics["Qin_kJ_per_kg"],
                      RMul(call.cp_kJkgK, RSub(StateT(4), StateT(1))))
       [] call.fn = "carnot_cycle" /\ call.mode = "engine" ->
            metrics["W_net_kJ_per_kg"] =
              ESub(metrics["Q_in_kJ_per_kg"], metrics["Q_out_kJ_per_kg"])
       [] call.fn = "carnot_cycle" /\ call.mode = "refrigerator" ->
            metrics["W_in_kJ_per_kg"] = ESub(CarnotQh, metrics["Q_cold_kJ_per_kg"])
       [] call.fn = "carnot_cycle" /\ call.mode = "heat_pump" ->
            metrics["W_in_kJ_per_kg"] = ESub(metrics["Q_hot_kJ_per_kg"], CarnotQc)

\* a Brayton return with work out of the turbine and into the compressor
C8_Witness ==
  /\ Solved("brayton_ideal") /\ pc = "returned"
  /\ RPos(metrics["Wc_kJ_per_kg"]) /\ RPos(metrics["Wnet_kJ_per_kg"])
  /\ RLt(StateT(1), StateT(4))

EngineKeys == {"eta_th"}
RefrigeratorKeys == {"COP_R"}
HeatPumpKeys == {"COP_HP"}
ModeKeys == EngineKeys \cup RefrigeratorKeys \cup HeatPumpKeys

\* C9: a carnot_cycle call that returns reports the figure of its mode and of
\* no other: engine eta_th = 1 - Tc/Th, refrigerator COP_R = Q_cold / W_in,
\* heat_pump COP_HP = Q_hot / W_in, the work being Qh - Qc = (Th - Tc) * delta_s
\* in all three; a call with any other mode that passes the parameter checks
\* raises and returns neither states nor metrics.
C9_OneMode ==
  Solved("carnot_cycle")
  => /\ pc = "returned" =>
          CASE call.mode = "engine" ->
                 /\ DOMAIN metrics \cap ModeKeys = EngineKeys
                 /\ metrics["eta_th"] = RSub(One, RDiv(call.Tc_K, call.Th_K))
                 /\ metrics["W_net_kJ_per_kg"] = ESub(CarnotQh, CarnotQc)
            [] call.mode = "refrigerator" ->
                 /\ DOMAIN metrics \cap ModeKeys = RefrigeratorKeys
                 /\ EScale(metrics["COP_R"], metrics["W_in_kJ_per_kg"]) =
                      metrics["Q_cold_kJ_per_kg"]
                 /\ metrics["Q_cold_kJ_per_kg"] = CarnotQc
                 /\ metrics["W_in_kJ_per_kg"] = ESub(CarnotQh, CarnotQc)
            [] call.mode = "heat_pump" ->
                 /\ DOMAIN metrics \cap ModeKeys = HeatPumpKeys
                 /\ EScale(metrics["COP_HP"], metrics["W_in_kJ_per_kg"]) =
                      metrics["Q_hot_kJ_per_kg"]
                 /\ metrics["Q_hot_kJ_per_kg"] = CarnotQh
                 /\ metrics["W_in_kJ_per_kg"] = ESub(CarnotQh, CarnotQc)
            [] OTHER -> FALSE
     /\ call.mode \notin CarnotModes
          => /\ pc = "raised" /\ states_df = NoTable /\ metrics = NoMetrics
             /\ carnot_validate(call.Th_K, call.Tc_K, call.delta_s_kJkgK) = ""
                  /\ RPos(call.R_kJkgK) /\ RLt(One, call.gamma)
                  /\ RPos(call.Tc_K) /\ RPos(call.v1)
                  => err = "ValueError: mode must be one of: engine, refrigerator, heat_pump"

C9_Witness ==
  /\ Solved("carnot_cycle") /\ pc = "returned" /\ call.mode = "refrigerator"
  /\ DOMAIN metrics \cap ModeKeys = {"COP_R"}
  /\ metrics["COP_R"] = Q(2)

\* a call in a mode the function does not know, otherwise valid
C9_WitnessOtherMode ==
  /\ Solved("carnot_cycle") /\ call.mode = "turbine" /\ pc = "raised"
  /\ err = "ValueError: mode must be one of: engine, refrigerator, heat_pump"

\* both calls of the pair returned, in engine mode
EnginePair ==
  /\ pc = "returned" /\ call.mode = "engine"
  /\ prev # NoPrev /\ prev.pc = "returned" /\ prev.call.mode = "engine"

\* C10: two carnot_cycle calls in engine mode with the same Th and Tc return
\* the same eta_th, whatever delta_s, gamma, R and v1 each was given; and a
\* call with Th = 600 and Tc = 300 returns eta_th = 1/2.
C10_EfficiencyOfThTcOnly ==
  /\ (EnginePair /\ call.Th_K = prev.call.Th_K /\ call.Tc_K = prev.call.Tc_K)
       => metrics["eta_th"] = prev.metrics["eta_th"]
  /\ (/\ Solved("carnot_cycle") /\ pc = "returned" /\ call.mode = "engine"
      /\ call.Th_K = Q(600) /\ call.Tc_K = Q(300))
       => metrics["eta_th"] = Frac(1, 2)

\* two calls at 600 K and 300 K that differ in every other input
C10_Witness ==
  /\ EnginePair
  /\ call.Th_K = Q(600) /\ call.Tc_K = Q(300)
  /\ prev.call.Th_K = Q(600) /\ prev.call.Tc_K = Q(300)
  /\ call.delta_s_kJkgK # prev.call.delta_s_kJkgK
  /\ call.gamma # prev.call.gamma
  /\ call.R_kJkgK # prev.call.R_kJkgK
  /\ call.v1 # prev.call.v1
  /\ metrics["Q_in_kJ_per_kg"] # prev.metrics["Q_in_kJ_per_kg"]
  /\ metrics["eta_th"] = Frac(1, 2) /\ prev.metrics["eta_th"] = Frac(1, 2)

-----------------------------------------------------------------------------
(* The real-fluid solvers' claims, under SpecFluid *)

\* the boundary conditions the claim calls invalid
InvalidBoundary ==
  CASE call.fn = "rankine_ideal" ->
         \/ RLe(call.Pb_kPa, call.Pc_kPa)
         \/ RLe(call.Pc_kPa, Zero) \/ RLe(call.Pb_kPa, Zero)
    [] call.fn = "rankine_reheat_ideal" ->
         ~(RLt(call.Pr_kPa, call.Pb_kPa) /\ RLt(call.Pc_kPa, call.Pr_kPa))
    [] call.fn = "vcr_ideal" -> RLe(call.Tcond_C, call.Tevap_C)
    [] OTHER -> FALSE

\* the invalid-boundary-condition errors of the real-fluid solvers
InvalidBoundaryErrors ==
  {"ValueError: Pressures must be > 0",
   "ValueError: Boiler pressure must be > condenser pressure",
   "ValueError: Need Pb > Pr > Pc",
   "ValueError: Tcond must be > Tevap"}

\* C5: a real-fluid solver called with an invalid boundary condition (rankine
\* Pb <= Pc or a pressure <= 0; reheat anything but Pb > Pr > Pc; vcr Tcond <=
\* Tevap) raises the invalid-boundary error having made no Property Provider
\* lookup, and returns no states, metrics or saturation curve; so a call that
\* has made a lookup is one whose boundary conditions passed the checks.
C5_RejectedBeforeLookup ==
  (pc # "idle" /\ call.fn \in FluidFns)
  => /\ InvalidBoundary
          => /\ pc = "raised" /\ err \in InvalidBoundaryErrors
             /\ queries = NoQueries
             /\ states_df = NoTable /\ metrics = NoMetrics /\ sat_df = NoTable
     /\ queries # NoQueries => ~InvalidBoundary

\* a reheat pressure equal to the boiler pressure, with a provider that would
\* fail on the first lookup
C5_Witness ==
  /\ pc = "raised" /\ call.fn = "rankine_reheat_ideal"
  /\ call.Pr_kPa = call.Pb_kPa /\ RLt(call.Pc_kPa, call.Pb_kPa) /\ RPos(call.Pc_kPa)
  /\ provider.kinds = {<<"state", "P", "x">>}
  /\ err = "ValueError: Need Pb > Pr > Pc" /\ queries = NoQueries

\* a lookup the solver made on which the Property Provider failed
LookupFailed == \E k \in 1..Len(queries) : Fails(provider, queries[k])

\* C11: a real-fluid solver never propagates the failure of a Property
\* Provider lookup: a call during which a lookup failed still returns its
\* states, metrics and saturation curve.
C11_LookupFailureAbsorbed ==
  (pc # "idle" /\ call.fn \in FluidFns /\ LookupFailed)
  => /\ pc = "returned"
     /\ states_df # NoTable /\ metrics # NoMetrics /\ sat_df # NoTable

\* what the provider gives as the quality at the turbine exit of rankine_ideal:
\* the fourth lookup, IAPWS97(P=Pc, s=s3)
TurbineExit == QualityValue(provider, queries[4])
\* superheated (or compressed) there: the provider has no quality to give
Superheated(x) == x[1] # "num"
InUnitRange(x) == x[1] = "num" /\ RLe(Zero, x[2]) /\ RLe(x[2], One)

C12_WitnessWet ==
  /\ Solved("rankine_ideal") /\ pc = "returned"
  /\ metrics["turbine_exit_quality_x"] = Num(Frac(1, 2))

(* Concurrent invocations, under SpecConcurrent *)

Ended(t) == running[t].pc \in {"returned", "raised"}
\* what the invocation of thread t gives when it runs alone on the table
Alone(t) ==
  smooth_path_ideal(call.states_df, running[t].legs, running[t].gamma, running[t].R)

\* C13: the invocations write no shared state: the states table they were
\* given keeps its rows, values and column names at every point of every
\* interleaving (also after an invocation renamed the entropy column of its
\* output, and after one failed), and every invocation that has ended has the
\* path or the exception it has when it runs alone.
C13_Isolated ==
  call.fn = "smooth_path_ideal, twice"
  => /\ states_df = call.states_df
     /\ \A t \in Threads :
          Ended(t) => /\ running[t].err = Alone(t).err
                      /\ running[t].path = Alone(t).df

\* thread b ran from its call to its return, with the entropy column of its
\* output renamed, between two turns of thread a's loop
C13_Witness ==
  /\ call.fn = "smooth_path_ideal, twice"
  /\ running["a"].pc = "looping" /\ running["a"].idx = 2 /\ Len(running["a"].legs) = 2
  /\ running["b"].pc = "returned"
  /\ "s_rel_kJ_per_kgK" \in running["b"].path.columns
  /\ "s_rel_kJ_per_kgK" \in states_df.columns

\* one invocation failed and the other returned
C13_WitnessFailure ==
  /\ call.fn = "smooth_path_ideal, twice"
  /\ running["a"].pc = "raised" /\ running["a"].err = "IndexError"
  /\ running["b"].pc = "returned" /\ NRows(running["b"].path) = 159

\* the rows of the path that are samples of leg m
LegRows(m) ==
  (RowsBefore(m) + 1)..(RowsBefore(m) + LegSamples(Legs[m][1]) - (IF m = 1 THEN 0 ELSE 1))
\* the property a leg of this kind holds, read from a sample or a State Point;
\* the State Point's entropy is the anchor s_a
Held(kind, r, entropy) ==
  CASE kind = "isen" -> entropy
    [] kind = "cv" -> ERat(r["v_m3_per_kg"])
    [] kind = "cp" -> ERat(r["P_kPa"])
    [] kind = "isoth" -> ERat(r["T_K"])

\* C14: within the samples of one leg the held property is the same in every
\* sample and is the start value: the entropy is the anchor s_a on an isen
\* leg, the volume, pressure or temperature that of the leg's start State
\* Point on a cv, cp or isoth leg.
C14_HeldProperty ==
  (Sampled /\ pc = "returned")
  => \A m \in 1..Len(Legs) :
       LET a == row(states_df, Legs[m][2])
           kind == Legs[m][1]
       IN \A k \in LegRows(m) :
            Held(kind, path.rows[k], PathEntropy(path.rows[k]))
              = Held(kind, a, Anchor(states_df, a))

\* a constant-volume leg followed by an isothermal one
C14_Witness ==
  /\ Sampled /\ pc = "returned" /\ Len(Legs) = 2
  /\ Legs[1][1] = "cv" /\ Legs[2][1] = "isoth"
  /\ path.rows[70]["v_m3_per_kg"] = row(states_df, Legs[1][2])["v_m3_per_kg"]
  /\ path.rows[159]["T_K"] = row(states_df, Legs[2][2])["T_K"]
  /\ path.rows[159]["v_m3_per_kg"] # path.rows[71]["v_m3_per_kg"]

\* the name the claim gives the entropy column of the path
ClaimedEntropyName ==
  IF scol(states_df) = "s_rel_kJ_per_kgK" THEN "s_rel_kJ_per_kgK" ELSE "s_kJ_per_kgK"

\* C15: the returned path has exactly the columns pressure, volume,
\* temperature and entropy, in every row; the entropy column has the name of
\* the entropy column of the states (s_rel_kJ_per_kgK when the states use that
\* name, s_kJ_per_kgK otherwise), and enthalpy, quality and State are not
\* among the columns.
C15_PathColumns ==
  (Sampled /\ pc = "returned")
  => /\ path.columns = {"P_kPa", "v_m3_per_kg", "T_K", ClaimedEntropyName}
     /\ \A k \in 1..NRows(path) : DOMAIN path.rows[k] = path.columns
     /\ path.columns \cap {"h_kJ_per_kg", "x_quality", "State"} = {}
     /\ scol(states_df) # "None" => scol(states_df) \in path.columns

\* states with enthalpy and quality columns and the relative entropy name
C15_Witness ==
  /\ Sampled /\ pc = "returned"
  /\ {"h_kJ_per_kg", "x_quality", "State", "s_rel_kJ_per_kgK"} \subseteq states_df.columns
  /\ path.columns = {"P_kPa", "v_m3_per_kg", "T_K", "s_rel_kJ_per_kgK"}

\* states with no entropy column at all
C15_WitnessNoEntropy ==
  /\ Sampled /\ pc = "returned" /\ scol(states_df) = "None"
  /\ "s_kJ_per_kgK" \in path.columns

(* More of the air-standard solvers' claims, under SpecAir *)

\* an input the claim has rejected: a pressure or temperature that is not
\* positive, or gamma <= 1
NonPositiveInput ==
  \/ RLe(call.gamma, One)
  \/ call.fn # "carnot_cycle" /\ (RLe(call.P1_kPa, Zero) \/ RLe(call.T1_K, Zero))
PositiveStates ==
  \A k \in 1..NRows(states_df) :
    /\ RPos(states_df.rows[k]["P_kPa"]) /\ RPos(states_df.rows[k]["T_K"])
    /\ RPos(states_df.rows[k]["v_m3_per_kg"])

\* C16: every State Point an air-standard solver returns has pressure,
\* temperature and specific volume > 0, and a call with P1 <= 0, T1 <= 0 or
\* gamma <= 1 is rejected with the invalid-parameters error, not by an
\* arithmetic failure.
C16_PositiveStates ==
  (pc # "idle" /\ call.fn \in AirFns)
  => /\ pc = "returned" => PositiveStates
     /\ NonPositiveInput => pc = "raised" /\ err \in InvalidParameters

(* More of the path sampler's claims, under SpecPath *)

\* the last sample of leg m in the path
LastRow(m) == path.rows[RowsBefore(m) + LegSamples(Legs[m][1]) - (IF m = 1 THEN 0 ELSE 1)]
\* the entropy of a State Point, 0 when the table has no entropy column
StateEntropy(a) == IF scol(states_df) = "None" THEN EZero ELSE a[scol(states_df)]
\* the entropy change of a whole leg under its process law
EntropyChange(leg) ==
  LET a == row(states_df, leg[2])
      b == row(states_df, leg[3])
      c == cv_from_gamma_R(call.gamma, call.R)
  IN CASE leg[1] = "isen" -> EZero
       [] leg[1] = "cv" -> EScale(c.cv, Ln(RDiv(b["T_K"], a["T_K"])))
       [] leg[1] = "cp" -> EScale(c.cp, Ln(RDiv(b["T_K"], a["T_K"])))
       [] leg[1] = "isoth" -> EScale(call.R, Ln(RDiv(b["v_m3_per_kg"], a["v_m3_per_kg"])))

\* C17 as claimed: every leg after the first is anchored at the entropy of
\* the last sample of the leg before it, so its own last sample has that
\* entropy plus the leg's entropy change; only the first leg is anchored at
\* the entropy of its start State Point.
C17_CarriedAnchor ==
  (Sampled /\ pc = "returned")
  => \A m \in 1..Len(Legs) :
       PathEntropy(LastRow(m)) =
         EAdd(IF m = 1 THEN StateEntropy(row(states_df, Legs[1][2]))
              ELSE PathEntropy(LastRow(m - 1)),
              EntropyChange(Legs[m]))

\* C17 amended: every leg, the first and the later ones alike, is anchored at
\* the entropy of its own start State Point as the states table gives it (0
\* when the table has no entropy column): its last sample has that entropy
\* plus the leg's entropy change, whatever the leg before it ended on.
C17_OwnAnchor ==
  (Sampled /\ pc = "returned")
  => \A m \in 1..Len(Legs) :
       PathEntropy(LastRow(m)) =
         EAdd(StateEntropy(row(states_df, Legs[m][2])), EntropyChange(Legs[m]))

\* a second leg whose start State Point has another entropy than the last
\* sample of the first leg
C17_Witness ==
  /\ Sampled /\ pc = "returned" /\ Len(Legs) = 2
  /\ PathEntropy(LastRow(1)) # StateEntropy(row(states_df, Legs[2][2]))
  /\ Legs[2][1] = "isen"
  /\ PathEntropy(LastRow(2)) = StateEntropy(row(states_df, Legs[2][2]))

(* The pages' claims, under SpecApp *)

\* the page has called the sampler with the states of its solver
PagePlotted == call.fn = "smooth_path_ideal" /\ prev.fn \in AirFns
\* the sample of leg m that the sampler drops: the first of its segment
Dropped(m) == Segment(states_df, Legs[m], call.gamma, call.R)[1]

\* C18: for every leg after the first, the sample the sampler drops agrees in
\* pressure, volume, temperature and entropy with the last sample kept of the
\* leg before it, for the states of every air-standard solver with the leg
\* list its page passes.
C18_DroppedIsDuplicate ==
  (PagePlotted /\ pc = "returned")
  => \A m \in 2..Len(Legs) : SameSample(Dropped(m), LastRow(m - 1))

\* the leg list the claim gives each cycle: one leg per process of the cycle's
\* definition, with its kind and its start and end states, closing on state 1
Topology(fn) ==
  CASE fn = "carnot_cycle" ->
         <<<<"isoth", 1, 2>>, <<"isen", 2, 3>>, <<"isoth", 3, 4>>, <<"isen", 4, 1>>>>
    [] fn = "otto_cycle" ->
         <<<<"isen", 1, 2>>, <<"cv", 2, 3>>, <<"isen", 3, 4>>, <<"cv", 4, 1>>>>
    [] fn = "brayton_ideal" ->
         <<<<"isen", 1, 2>>, <<"cp", 2, 3>>, <<"isen", 3, 4>>, <<"cp", 4, 1>>>>
    [] fn = "diesel_cycle" ->
         <<<<"isen", 1, 2>>, <<"cp", 2, 3>>, <<"isen", 3, 4>>, <<"cv", 4, 1>>>>
    [] fn = "dual_cycle" ->
         <<<<"isen", 1, 2>>, <<"cv", 2, 3>>, <<"cp", 3, 4>>, <<"isen", 4, 5>>,
           <<"cv", 5, 1>>>>

\* C19: the leg list a page passes to the sampler follows its cycle's
\* topology: Brayton's 2->3 and 4->1 legs are constant-pressure, Diesel's 2->3
\* leg is constant-pressure, and Dual has the five legs isen 1->2, cv 2->3,
\* cp 3->4, isen 4->5, cv 5->1, which visit all the states of the table.
C19_LegsFollowTopology ==
  PagePlotted
  => /\ Legs = Topology(prev.fn)
     /\ \A k \in 1..NRows(states_df) :
          \E m \in 1..Len(Legs) : Legs[m][2] = states_df.rows[k]["State"]

(* More of the real-fluid solvers' claims, under SpecFluid *)

MPa(P_kPa) == RDiv(P_kPa, Q(1000))
\* the places in the lookup log of the lookups by pressure and entropy
EntropyLookups ==
  {k \in 1..Len(queries) :
     IF queries[k].lib = "IAPWS97" THEN queries[k].by = "s" ELSE queries[k].in2 = "S"}
\* the answer of the k-th lookup
Answer(k) ==
  IF queries[k].lib = "IAPWS97" THEN SteamState(provider, queries[k])
  ELSE Props(provider, queries[k])

\* C20: each turbine or compressor exit is resolved by exactly one lookup at
\* the downstream pressure with the entropy the provider gave for the upstream
\* state, made after the upstream state's lookup: Rankine's 4th lookup is
\* (Pc, s3); Rankine-Reheat's 4th is (Pr, s3) and its 6th is (Pc, s5), s5 the
\* entropy of the reheat outlet (5th lookup); vapor-compression's 7th is
\* (Pcond, s1) with s1 the answer of the 4th, and gives the enthalpy from
\* which the rest of state 2 is looked up.  No other lookup is by entropy, and
\* the states table holds the upstream entropy and the exit state so found.
C20_IsentropicLookups ==
  (pc # "idle" /\ call.fn \in FluidFns /\ Len(queries) >= 4)
  => CASE call.fn = "rankine_ideal" ->
            /\ queries[4] = SteamQuery(Ln(MPa(call.Pc_kPa)), "s", Answer(3).s)
            /\ queries[3].lnP = Ln(MPa(call.Pb_kPa))
            /\ EntropyLookups = {4}
            /\ pc = "returned" =>
                 /\ states_df.rows[3]["s_kJ_per_kgK"] = queries[4].val
                 /\ states_df.rows[4]["T_K"] = Answer(4).T
                 /\ states_df.rows[4]["h_kJ_per_kg"] = Answer(4).h
       [] call.fn = "rankine_reheat_ideal" ->
            /\ queries[4] = SteamQuery(Ln(MPa(call.Pr_kPa)), "s", Answer(3).s)
            /\ Len(queries) >= 6 =>
                 /\ queries[5] = SteamQuery(Ln(MPa(call.Pr_kPa)), "T", Kelvin(call.T5_C))
                 /\ queries[6] = SteamQuery(Ln(MPa(call.Pc_kPa)), "s", Answer(5).s)
            /\ EntropyLookups \subseteq {4, 6}
            /\ pc = "returned" =>
                 /\ EntropyLookups = {4, 6}
                 /\ states_df.rows[3]["s_kJ_per_kgK"] = queries[4].val
                 /\ states_df.rows[5]["s_kJ_per_kgK"] = queries[6].val
                 /\ states_df.rows[4]["h_kJ_per_kg"] = Answer(4).h
                 /\ states_df.rows[6]["h_kJ_per_kg"] = Answer(6).h
       [] call.fn = "vcr_ideal" ->
            /\ queries[4] = PropsQuery("S", "P", Answer(1), "T",
                                       RAdd(Kelvin(call.Tevap_C), call.superheat_C),
                                       call.fluid)
            /\ Len(queries) >= 7 =>
                 queries[7] = PropsQuery("H", "P", Answer(2), "S", Answer(4), call.fluid)
            /\ EntropyLookups \subseteq {7}
            /\ pc = "returned" =>
                 /\ EntropyLookups = {7}
                 /\ states_df.rows[1]["s_kJ_per_kgK"] = kJk(queries[7].v2)
                 /\ states_df.rows[2]["P_kPa"] = kPa(queries[7].v1)
                 /\ states_df.rows[2]["h_kJ_per_kg"] = kJ(Answer(7))
                 /\ \A k \in 8..11 : queries[k].in2 = "H" /\ queries[k].v2 = Answer(7)
                                     /\ queries[k].v1 = queries[7].v1

\* a reheat cycle whose reheat outlet has another entropy than state 3: the
\* low-pressure turbine exit is looked up with the reheat outlet's
C20_Witness ==
  /\ pc = "returned" /\ call.fn = "rankine_reheat_ideal"
  /\ Answer(5).s # Answer(3).s
  /\ queries[6].by = "s" /\ queries[6].val = Answer(5).s
  /\ queries[6].lnP = Ln(MPa(call.Pc_kPa))

\* a returned vapor-compression cycle
C20_WitnessVcr ==
  /\ pc = "returned" /\ call.fn = "vcr_ideal"
  /\ queries[7].in2 = "S" /\ queries[7].v2 = Answer(4)

\* a returned Rankine cycle
C20_WitnessRankine ==
  /\ pc = "returned" /\ call.fn = "rankine_ideal" /\ queries[4].by = "s"

(* The reference volume of the air-standard solvers, under SpecAir *)

StateOne == row(states_df, 1)
ReturnedAir == pc = "returned" /\ call.fn \in AirFns

\* C21 as claimed: no air-standard solver has a volume among its inputs, and
\* the volume of state 1 in the returned table is R*T1/P1 of the solver's
\* state-1 pressure and temperature inputs.
C21_VolumeFromInputs ==
  ReturnedAir
  => /\ "v1" \notin DOMAIN call
     /\ {"P1_kPa", "T1_K"} \subseteq DOMAIN call
     /\ StateOne["v_m3_per_kg"] = RDiv(RMul(call.R_kJkgK, call.T1_K), call.P1_kPa)

\* C21 amended: Brayton, Otto, Diesel and Dual have no volume input and
\* return state 1 with their inputs P1 and T1 and the volume R*T1/P1; Carnot
\* has no pressure input: its v1 is an input of its own, returned as the
\* volume of state 1 with the temperature Th and the pressure R*Th/v1.  In
\* every returned table state 1 obeys P1*v1 = R*T1.
C21_ReferenceVolume ==
  ReturnedAir
  => /\ IF call.fn = "carnot_cycle"
        THEN /\ StateOne["v_m3_per_kg"] = call.v1
             /\ StateOne["T_K"] = call.Th_K
             /\ StateOne["P_kPa"] = RDiv(RMul(call.R_kJkgK, call.Th_K), call.v1)
        ELSE /\ "v1" \notin DOMAIN call
             /\ StateOne["P_kPa"] = call.P1_kPa
             /\ StateOne["T_K"] = call.T1_K
             /\ StateOne["v_m3_per_kg"] =
                  RDiv(RMul(call.R_kJkgK, call.T1_K), call.P1_kPa)
     /\ RMul(StateOne["P_kPa"], StateOne["v_m3_per_kg"])
          = RMul(call.R_kJkgK, StateOne["T_K"])

\* a Carnot call whose v1 is not the value the ideal-gas law would give for a
\* pressure of 1 kPa, and whose state 1 has that v1
C21_Witness ==
  /\ ReturnedAir /\ call.fn = "carnot_cycle"
  /\ call.v1 = Q(2) /\ call.R_kJkgK = One /\ call.Th_K = Q(2)
  /\ StateOne["v_m3_per_kg"] = Q(2) /\ StateOne["P_kPa"] = One

\* an Otto call with its volume computed
C21_WitnessOtto ==
  /\ ReturnedAir /\ call.fn = "otto_cycle"
  /\ call.R_kJkgK = Q(2) /\ call.T1_K = One /\ call.P1_kPa = Q(2)
  /\ StateOne["v_m3_per_kg"] = One

(* The first law in the real-fluid metrics, under SpecFluid *)

\* the enthalpy of state k in the returned table
Enthalpy(k) == states_df.rows[k]["h_kJ_per_kg"]

\* C22: the metrics of a returned real-fluid call close the first law over
\* the enthalpies of its states table, whatever values the provider gave:
\* rankine_ideal has Wnet = wt - wp = (h3 - h2) - (h4 - h1), with h2 = h1 + wp;
\* rankine_reheat_ideal has Wnet = Qin_total - (h6 - h1); vcr_ideal has
\* q_out = q_in + w_comp, with h4 = h3.
C22_FirstLaw ==
  (pc = "returned" /\ call.fn \in FluidFns)
  => CASE call.fn = "rankine_ideal" ->
            /\ metrics["Wnet_kJ_per_kg"]
                 = RSub(metrics["wt_kJ_per_kg"], metrics["wp_kJ_per_kg"])
            /\ metrics["Wnet_kJ_per_kg"]
                 = RSub(RSub(Enthalpy(3), Enthalpy(2)), RSub(Enthalpy(4), Enthalpy(1)))
            /\ Enthalpy(2) = RAdd(Enthalpy(1), metrics["wp_kJ_per_kg"])
            /\ metrics["Qin_kJ_per_kg"] = RSub(Enthalpy(3), Enthalpy(2))
       [] call.fn = "rankine_reheat_ideal" ->
            /\ metrics["Wnet_kJ_per_kg"]
                 = RSub(metrics["Qin_total_kJ_per_kg"], RSub(Enthalpy(6), Enthalpy(1)))
            /\ metrics["Qin_total_kJ_per_kg"]
                 = RAdd(RSub(Enthalpy(3), Enthalpy(2)), RSub(Enthalpy(5), Enthalpy(4)))
       [] call.fn = "vcr_ideal" ->
            /\ metrics["q_out_kJ_per_kg"]
                 = RAdd(metrics["q_in_kJ_per_kg"], metrics["w_comp_kJ_per_kg"])
            /\ Enthalpy(4) = Enthalpy(3)
            /\ metrics["w_comp_kJ_per_kg"] = RSub(Enthalpy(2), Enthalpy(1))

\* a Rankine call with pump work, so that the net work is not the turbine's
C22_Witness ==
  /\ pc = "returned" /\ call.fn = "rankine_ideal"
  /\ RPos(metrics["wp_kJ_per_kg"])
  /\ metrics["Wnet_kJ_per_kg"] # metrics["wt_kJ_per_kg"]
  /\ Enthalpy(4) # Enthalpy(1)

\* a vapor-compression call with heat taken in and work done on the fluid
C22_WitnessVcr ==
  /\ pc = "returned" /\ call.fn = "vcr_ideal"
  /\ ~IsZero(metrics["q_in_kJ_per_kg"]) /\ ~IsZero(metrics["w_comp_kJ_per_kg"])

\* a reheat call
C22_WitnessReheat ==
  /\ pc = "returned" /\ call.fn = "rankine_reheat_ideal"
  /\ Enthalpy(6) # Enthalpy(1)

(* The saturation curve of vcr_ideal, under SpecFluid *)

\* the call got as far as the saturation loop: its first lookup, the
\* saturation pressure of the liquid at Tevap, is made nowhere else
LoopReached ==
  /\ Solved("vcr_ideal")
  /\ \E p \in DOMAIN queries :
       queries[p] = SatLookups(Kelvin(call.Tevap_C), call.fluid)[1]
\* the list the loop of the call leaves for lookup j: Pline, hf, hg, sf, sg
LoopList(j) ==
  SatColumn(provider, Kelvin(call.Tevap_C), Kelvin(call.Tcond_C), call.fluid, j, 0)
\* the temperature of sample k
LoopT(k) == Linspace(Kelvin(call.Tevap_C), Kelvin(call.Tcond_C), NSatVcr, k)
\* some lookup of the loop at sample k fails
LoopFailure(k) == FirstFailure(provider, SatLookups(LoopT(k), call.fluid)) # 0

\* C23: whatever lookups fail in the saturation loop of vcr_ideal, its lists
\* end with the same number of entries, the saturation table is built from
\* them, and a temperature at which a lookup failed has no entry in any list.
C23_ColumnsAligned ==
  LoopReached
  => /\ \A j \in 2..5 : Len(LoopList(j)) = Len(LoopList(1))
     /\ pc = "returned"
     /\ Len(sat_df.rows) = Len(LoopList(1))
     /\ \A k \in 0..(NSatVcr - 1) :
          LoopFailure(k)
          => \A j \in 1..5 : ~SatAppended(provider, LoopT(k), call.fluid, j)

\* the row of the saturation curve holds what was looked up at its temperature
RowLookedUp(r) ==
  \A j \in 1..5 :
    LET q == SatLookups(r["T_K"], call.fluid)[j]
    IN /\ ~Fails(provider, q)
       /\ r[<<"P_kPa", "h_f", "h_g", "s_f", "s_g">>[j]] = kJ(Props(provider, q))

\* C24: every row of the saturation curve vcr_ideal returns pairs a
\* temperature with the saturation pressure, enthalpies and entropies looked
\* up at that temperature, also when the lookups of an earlier temperature
\* failed and that temperature was skipped.
C24_RowsOfOneTemperature ==
  (pc = "returned" /\ call.fn = "vcr_ideal")
  => \A p \in DOMAIN sat_df.rows : RowLookedUp(sat_df.rows[p])

(* Label lookup of the path sampler, under SpecPath *)

\* the last sample of a leg of this kind lies where the leg from State Point
\* a to State Point b ends: on a's held property, at b's volume or temperature
EndsAt(kind, r, a, b) ==
  CASE kind = "isen" ->
         r["v_m3_per_kg"] = b["v_m3_per_kg"] /\ PathEntropy(r) = StateEntropy(a)
    [] kind = "cv" -> r["v_m3_per_kg"] = a["v_m3_per_kg"] /\ r["T_K"] = b["T_K"]
    [] kind = "cp" -> r["P_kPa"] = a["P_kPa"] /\ r["T_K"] = b["T_K"]
    [] kind = "isoth" -> r["T_K"] = a["T_K"] /\ r["v_m3_per_kg"] = b["v_m3_per_kg"]
\* the legs before leg m name labels of the table and kinds the sampler knows
EarlierLegsFine(m) ==
  \A q \in 1..(m - 1) : LabelsExist(Legs[q]) /\ Legs[q][1] \in LegKinds

\* C25: smooth_path_ideal finds the start and end State Point of a leg by the
\* value of the State label, wherever the row stands in the table; a leg with
\* a label the table does not hold makes the call raise and return no path;
\* and the labels of a leg are looked up before its kind is checked, so the
\* first failing leg fails on its label also when its kind is unknown too.
C25_LabelLookup ==
  Sampled
  => /\ pc = "returned"
          => \A m \in 1..Len(Legs) :
               \E p, q \in 1..NRows(states_df) :
                 /\ states_df.rows[p]["State"] = Legs[m][2]
                 /\ states_df.rows[q]["State"] = Legs[m][3]
                 /\ EndsAt(Legs[m][1], LastRow(m), states_df.rows[p], states_df.rows[q])
     /\ \A m \in 1..Len(Legs) :
          ~LabelsExist(Legs[m])
          => /\ pc = "raised" /\ path = NoTable
             /\ EarlierLegsFine(m) => err = "IndexError"

\* a returned path over a table whose rows are not in label order: the leg
\* from 1 to 2 runs between the second and third row
C25_Witness ==
  /\ Sampled /\ pc = "returned" /\ Len(Legs) = 2
  /\ states_df.rows[1]["State"] = 3 /\ Legs[1][2] = 1 /\ Legs[1][3] = 2
  /\ Legs[1][1] = "isoth"
  /\ path.rows[90]["T_K"] = states_df.rows[2]["T_K"]
  /\ path.rows[90]["T_K"] # states_df.rows[1]["T_K"]

\* a leg with an absent label and an unknown kind, after a sound leg
C25_WitnessBoth ==
  /\ Sampled /\ Len(Legs) = 2 /\ Legs[1][1] \in LegKinds /\ LabelsExist(Legs[1])
  /\ Legs[2][1] \notin LegKinds /\ ~LabelsExist(Legs[2])
  /\ pc = "raised" /\ err = "IndexError" /\ path = NoTable

=============================================================================
